---- MODULE Spec2Model ----
(***************************************************************************)
(* Model of the NTUT electricity bill bot: the crawl outcome classifier    *)
(* (src/src/crawler/ntut_crawler.py), the store (src/src/database), the    *)
(* task scheduler (src/src/scheduler/scheduler.py), the balance API        *)
(* (src/api.py) and the notification layer (src/src/notifier).             *)
(*                                                                         *)
(* Every awaited external call (browser start, login, extraction, store    *)
(* insert, screenshot, HTTP delivery) is one action whose outcome is       *)
(* chosen nondeterministically; the Python between two awaits runs         *)
(* atomically on the single event loop and is folded into the action that  *)
(* precedes it.                                                            *)
(*                                                                         *)
(* Strings that are Chinese in the source are written in ASCII here; the   *)
(* original text is given in the comment of each definition.               *)
(***************************************************************************)
EXTENDS Integers, Sequences, FiniteSets, TLC

----------------------------------------------------------------------------
(* Bounds of the model *)

\* the wall clock (datetime.now()) reads the values 0..MaxClock
MaxClock == 1
\* how many crawl attempts the scheduler may start in one behaviour
MaxAttempts == 2
\* number of digits kept after the decimal point when a float is represented
\* as a scaled integer (balance 12.5 is 1250 when FracDigits = 2)
FracDigits == 2
\* how many rows of electricity_records the target date may have
MaxReadings == 4

\* start() calls made in a behaviour of the start-up model
MaxStarts == 4

\* cron triggers that come due in a behaviour of the cron model
MaxFires == 4

----------------------------------------------------------------------------
(* Text: a Python str is a sequence of tokens. A token is one character,   *)
(* or a whole fixed phrase of the source written as one token.             *)

Digits == <<"0", "1", "2", "3", "4", "5", "6", "7", "8", "9">>

IsDigit(c) == \E i \in 1..Len(Digits) : Digits[i] = c

DigitValue(c) == (CHOOSE i \in 1..Len(Digits) : Digits[i] = c) - 1

\* "購電餘額", the label of the balance on the page
MARKER == "BALANCE_LABEL"

\* BROWSER_NOT_INITIALIZED = "瀏覽器未初始化"
BROWSER_NOT_INITIALIZED == <<"BROWSER_NOT_INITIALIZED">>

\* the sentinel "無法取得餘額" returned when no strategy matched
UNREADABLE == <<"BALANCE_UNREADABLE">>

RECURSIVE Pow10(_)
Pow10(n) == IF n <= 0 THEN 1 ELSE 10 * Pow10(n - 1)

\* a float is an integer number of 1/Scale units
Scale == Pow10(FracDigits)

RECURSIVE DigitsToInt(_)
DigitsToInt(s) ==
    IF s = <<>> THEN 0
    ELSE 10 * DigitsToInt(SubSeq(s, 1, Len(s) - 1)) + DigitValue(s[Len(s)])

\* index of the last token of the maximal run of digits that starts at i
\* (i - 1 when text[i] is no digit)
RECURSIVE DigitRunEnd(_, _)
DigitRunEnd(text, i) ==
    IF i <= Len(text) /\ IsDigit(text[i]) THEN DigitRunEnd(text, i + 1) ELSE i - 1

\* str.strip(): leading and trailing blanks removed
RECURSIVE LStrip(_)
LStrip(s) == IF s # <<>> /\ s[1] = " " THEN LStrip(Tail(s)) ELSE s

RECURSIVE RStrip(_)
RStrip(s) ==
    IF s # <<>> /\ s[Len(s)] = " " THEN RStrip(SubSeq(s, 1, Len(s) - 1)) ELSE s

Strip(s) == LStrip(RStrip(s))

Contains(s, c) == \E i \in 1..Len(s) : s[i] = c

\* full_text.split(":", 1)[1]: everything after the first colon
AfterFirstColon(s) ==
    LET i == CHOOSE k \in 1..Len(s) : s[k] = ":" /\ \A j \in 1..(k - 1) : s[j] # ":"
    IN  SubSeq(s, i + 1, Len(s))

\* container_text.replace("購電餘額", ""): every occurrence of the label removed
RemoveMarker(s) == SelectSeq(s, LAMBDA c : c # MARKER)

\* re.findall(r"\d+\.?\d*", balance_text): the first match, as
\* [found, int, frac] with int and frac the digit runs before and after the dot
FirstNumber(text) ==
    IF \A i \in 1..Len(text) : ~IsDigit(text[i])
    THEN [found |-> FALSE, int |-> <<>>, frac |-> <<>>]
    ELSE LET i == CHOOSE k \in 1..Len(text) :
                    IsDigit(text[k]) /\ \A j \in 1..(k - 1) : ~IsDigit(text[j])
             j == DigitRunEnd(text, i)
             dot == j + 1 <= Len(text) /\ text[j + 1] = "."
             k == IF dot THEN DigitRunEnd(text, j + 2) ELSE j
         IN  [found |-> TRUE,
              int |-> SubSeq(text, i, j),
              frac |-> IF dot THEN SubSeq(text, j + 2, k) ELSE <<>>]

\* the number of the digits before the dot alone
extract_balance_number_int(text) ==
    LET m == FirstNumber(text)
    IN  IF m.found THEN DigitsToInt(m.int) * Scale ELSE 0

\* NTUTCrawler.extract_balance_number: float(numbers[0]), or 0.0 when the
\* text holds no number
extract_balance_number(text) ==
    LET m == FirstNumber(text)
    IN  IF m.found
        THEN DigitsToInt(m.int) * Scale
             + DigitsToInt(m.frac) * Pow10(FracDigits - Len(m.frac))
        ELSE 0

----------------------------------------------------------------------------
(* The remote page: what each locator of get_balance yields.               *)

Raises == [kind |-> "raise", text |-> <<>>]
NoText == [kind |-> "none", text |-> <<>>]
Text(t) == [kind |-> "text", text |-> t]

\* bool(text_content()) in Python: neither None nor ""
Truthy(r) == r.kind = "text" /\ r.text # <<>>

\* the page as seen through a closed page object: every locator call raises
ClosedDoc == [xpath |-> Raises, label |-> Raises, parent |-> Raises]

\* a page whose structural locator shows a balance of 12.5
LowBalanceDoc ==
    [xpath |-> Text(<<" ", "1", "2", ".", "5", " ">>), label |-> Raises, parent |-> Raises]

\* a page on which no locator finds the balance
UnreadableDoc == [xpath |-> NoText, label |-> NoText, parent |-> NoText]

\* the remote pages of the model: xpath is the structural locator, label the
\* "text=購電餘額" locator, parent its ".." container
Docs ==
    { LowBalanceDoc,
      [xpath |-> Text(<<"0", ".", "0">>), label |-> Raises, parent |-> Raises],
      [xpath |-> Raises, label |-> Text(<<MARKER, ":", " ", "9", "9">>), parent |-> NoText],
      [xpath |-> NoText, label |-> Text(<<MARKER>>),
       parent |-> Text(<<MARKER, ":", "7", "NTD">>)],
      [xpath |-> Raises, label |-> Text(<<MARKER>>), parent |-> Text(<<MARKER, "-">>)],
      [xpath |-> Raises, label |-> Raises, parent |-> Text(<<MARKER, "5">>)],
      [xpath |-> Text(<<"0", ".", "5">>), label |-> NoText, parent |-> NoText],
      [xpath |-> Text(<<"N", "/", "A">>), label |-> Text(<<MARKER, ":", "9", "9">>),
       parent |-> Text(<<MARKER, ":", "9", "9">>)],
      [xpath |-> Text(<<>>), label |-> Text(<<MARKER, ":", " ">>), parent |-> Raises],
      [xpath |-> Text(<<"N", "T", "3", ".", " ", "4">>), label |-> Raises,
       parent |-> Raises],
      UnreadableDoc }

\* NTUTCrawler.get_balance, given whether self.page is set and what the
\* locators yield
get_balance(hasPage, doc) ==
    IF ~hasPage THEN BROWSER_NOT_INITIALIZED
    ELSE IF Truthy(doc.xpath) THEN Strip(doc.xpath.text)
    ELSE IF doc.label.kind = "raise" THEN UNREADABLE
    ELSE IF Truthy(doc.label) /\ Contains(doc.label.text, ":")
         THEN Strip(AfterFirstColon(doc.label.text))
    ELSE IF doc.parent.kind = "raise" THEN UNREADABLE
    ELSE IF Truthy(doc.parent)
         THEN LET t == Strip(RemoveMarker(doc.parent.text))
              IN  IF t # <<>> /\ t[1] = ":" THEN Strip(Tail(t)) ELSE t
    ELSE UNREADABLE

\* whether a locator call of get_balance raises on this page (the exception
\* is caught inside get_balance)
locator_raised(doc) ==
    \/ doc.xpath.kind = "raise"
    \/ /\ ~Truthy(doc.xpath)
       /\ \/ doc.label.kind = "raise"
          \/ /\ ~(Truthy(doc.label) /\ Contains(doc.label.text, ":"))
             /\ doc.parent.kind = "raise"

----------------------------------------------------------------------------
(* Messages and levels *)

\* Python None
NONE == "None"

\* "登入失敗"
MSG_LOGIN_FAILED == "login failed"

\* "餘額記錄存入資料庫失敗"
MSG_INSERT_FAILED == "balance record insert failed"

\* "未取得有效餘額或資料庫未設定"
MSG_NO_BALANCE_OR_DB == "no valid balance or database not set"

\* "調度器未初始化"
MSG_NOT_INITIALIZED == "scheduler not initialized"

\* NotificationLevel
DEBUG == 10
INFO == 20
SUCCESS == 25
WARNING == 30
ERROR == 40
CRITICAL == 50

\* NotificationLevel.from_string of the lower-cased name
from_string(level_str) ==
    IF level_str = "debug" THEN DEBUG
    ELSE IF level_str = "info" THEN INFO
    ELSE IF level_str = "success" THEN SUCCESS
    ELSE IF level_str = "warning" THEN WARNING
    ELSE IF level_str = "error" THEN ERROR
    ELSE IF level_str = "critical" THEN CRITICAL
    ELSE INFO

\* the letters of the level names, as str.lower() pairs them
UPPERCASE == <<"A", "B", "C", "D", "E", "F", "G", "I", "L", "N", "O", "R", "S", "T", "U", "W">>
LOWERCASE == <<"a", "b", "c", "d", "e", "f", "g", "i", "l", "n", "o", "r", "s", "t", "u", "w">>

\* str.lower() of one character: an upper-case letter becomes its lower-case
\* letter, every other character stays
lower_char(c) ==
    IF \E i \in 1..Len(UPPERCASE) : UPPERCASE[i] = c
    THEN LOWERCASE[CHOOSE i \in 1..Len(UPPERCASE) : UPPERCASE[i] = c]
    ELSE c

\* level_str.lower()
lower(chars) == [i \in 1..Len(chars) |-> lower_char(chars[i])]

\* the keys of level_map, as characters
KEY_DEBUG == <<"d", "e", "b", "u", "g">>
KEY_INFO == <<"i", "n", "f", "o">>
KEY_SUCCESS == <<"s", "u", "c", "c", "e", "s", "s">>
KEY_WARNING == <<"w", "a", "r", "n", "i", "n", "g">>
KEY_ERROR == <<"e", "r", "r", "o", "r">>
KEY_CRITICAL == <<"c", "r", "i", "t", "i", "c", "a", "l">>

\* level_map.get(key, cls.INFO)
level_map_get(key) ==
    IF key = KEY_DEBUG THEN DEBUG
    ELSE IF key = KEY_INFO THEN INFO
    ELSE IF key = KEY_SUCCESS THEN SUCCESS
    ELSE IF key = KEY_WARNING THEN WARNING
    ELSE IF key = KEY_ERROR THEN ERROR
    ELSE IF key = KEY_CRITICAL THEN CRITICAL
    ELSE INFO

\* the lookup without lower(): the string is the key as written
from_string_chars_exact(chars) == level_map_get(chars)

\* NotificationLevel.from_string of a string given by its characters
from_string_chars(chars) == level_map_get(lower(chars))

\* str(e) of the fault raised by playwright start / chromium launch
FAULT_LAUNCH == "browser launch fault"

\* str(e) of the fault raised after the page was created (viewport, headers)
FAULT_SETUP == "page setup fault"

\* str(e) of an exception caught inside NTUTCrawler.login (it is logged)
FAULT_LOGIN == "login fault"

\* str(e) of an exception caught inside NTUTCrawler.get_balance (it is logged)
FAULT_EXTRACT == "locator fault"

\* str(e) of an exception caught inside insert_electricity_record (it is logged)
FAULT_INSERT == "insert fault"

\* str(e) of zoneinfo.ZoneInfoNotFoundError raised by ZoneInfo(settings.tz)
FAULT_TZ == "no time zone found"

----------------------------------------------------------------------------
(* Processes *)

\* the callers of CrawlerService.run_crawl_task:
\*   cron    - TaskScheduler.run_crawl_task run by the APScheduler cron job
\*   startup - TaskScheduler.run_crawl_task run by asyncio.create_task in start()
\*   manual  - TaskScheduler.run_manual_crawl
\*   api     - get_balance of api.py, with a CrawlerService of its own
\*   direct  - a CrawlerService used on its own (set_database called or not)
SchedAttempts == {"cron", "startup", "manual"}
Attempts == SchedAttempts \cup {"api", "direct"}

\* one CrawlerService, hence one NTUTCrawler (page, browser), per holder
Services == {"sched", "api", "direct"}
Service(a) == IF a \in SchedAttempts THEN "sched" ELSE a

VARIABLES
    cfg,                 \* settings and wiring, fixed for a behaviour
    site,                \* the remote page (what the locators yield)
    now,                 \* datetime.now() when it was last read
    pc,                  \* position of each caller
    run,                 \* how many times each caller has been invoked
    start_time,          \* run_crawl_task's start_time
    result,              \* run_crawl_task's result dict
    hist,                \* what each step of the current attempt did (history)
    page,                \* NTUTCrawler.page of each service: none, open, closed
    electricity_records, \* table electricity_records
    crawler_logs,        \* table crawler_logs
    log_calls,           \* calls of insert_crawler_log by the current attempt
    task_start,          \* task_start_time / start_time of the scheduler method
    outcome,             \* the dict returned to the caller
    raised,              \* the fault a caller is handling, NONE when none
    manager_scheduler,   \* SchedulerManager.scheduler: none or created
    is_running,          \* TaskScheduler.is_running
    boot,                \* position of the caller of SchedulerManager.start()
    deliveries,          \* HTTP posts made to notification channels
    http,                \* status code of the API response, 0 before it
    notifiers,           \* NotificationManager.notifiers of manager.py
    event,               \* the notification the manager is routing
    mpc,                 \* position of the manager's send_* method
    sends,               \* send_notification calls made for the event
    chart_sends,         \* send_chart_notification calls made for the event
    readings,            \* rows of electricity_records of the target date
    query_ok,            \* whether the query of the last call worked
    daily_summary,       \* what get_daily_usage_summary returned, <<>> before
    earlier,             \* the call before the last: its query and its summary
    daily_pc,            \* position of the daily summary task
    daily_kind,          \* scheduled (run_daily_summary_task) or manual
    chart_path,          \* chart_path of the task: <<>> is None
    daily_notes,         \* notifications the task has had routed, in order
    daily_result,        \* status of the dict the manual task returns
    proc,                \* position of main() of main.py
    bot_running,         \* ElectricityBillBot.running
    start_args,          \* what the caller hands to SchedulerManager.start
    stop_task,           \* the task of bot.stop() the signal handler created
    cancelled,           \* crawl tasks cancelled by the event loop
    from_string_arg,     \* level_str handed to NotificationLevel.from_string
    from_string_ret,     \* what the call returned: <<>> before it returns
    crawler,             \* what self.playwright, self.browser and self.page of
                         \* an NTUTCrawler refer to: none, open or closed
    crawler_pc,          \* position of run_crawl_task around `async with`
    opened,              \* the resources opened for the run in progress
    crawler_runs,        \* run_crawl_task calls made on the crawler
    crawl_path,          \* the path on which the run left `async with`
    leaked,              \* resources left open that no field refers to any more
    caller,              \* position of each caller of SchedulerManager.start
    start_calls,         \* start() calls made so far
    manager_instances,   \* SchedulerManager objects that were created
    schedulers_made,     \* TaskScheduler objects the manager has held
    aps_running,         \* the AsyncIOScheduler has been started
    aps_starts,          \* times the AsyncIOScheduler was started
    startup_notes,       \* startup notifications sent
    startup_tasks,       \* startup crawl tasks created
    fetched,             \* the last Database call of the store model and
                         \* what it returned
    fired                \* cron triggers that came due, by what they found

crawlVars == <<start_time, result, hist, page, electricity_records>>
schedVars == <<crawler_logs, log_calls, task_start, outcome, raised,
               manager_scheduler, is_running, boot,
               deliveries, http>>
routerVars == <<notifiers, event, mpc, sends, chart_sends>>
summaryVars == <<readings, query_ok, daily_summary, earlier>>
dailyVars == <<daily_pc, daily_kind, chart_path, daily_notes, daily_result>>
lifeVars == <<proc, bot_running, start_args, stop_task, cancelled>>
levelVars == <<from_string_arg, from_string_ret>>
closeVars == <<crawler, crawler_pc, opened, crawler_runs, crawl_path, leaked>>
startVars == <<caller, start_calls, manager_instances, schedulers_made,
               aps_running, aps_starts, startup_notes, startup_tasks>>
storeVars == <<fetched>>
fireVars == <<fired>>
vars == <<cfg, site, now, pc, run, crawlVars, schedVars, routerVars,
          summaryVars, dailyVars, lifeVars, levelVars, closeVars, startVars, storeVars, fireVars>>

\* result as run_crawl_task creates it (lines 267-273); keys are the dict's keys
InitialResult ==
    [status |-> "error", records_count |-> 0, error_message |-> NONE,
     duration_seconds |-> 0, records |-> <<>>,
     balance_text |-> <<>>, balance_number |-> 0,
     keys |-> {"status", "records_count", "error_message", "duration_seconds",
               "records"}]

\* no dict yet
NoResult == [InitialResult EXCEPT !.status = "none", !.keys = {}]

\* nothing done yet: start is none, ok, fail_launch or fail_setup; login is
\* none or a LoginClass; extract is none, ok or fault (a locator call raised
\* inside get_balance); insert is none, ok or fail; shot (the screenshot of
\* the except clause) is none, ok or fail
NoHist == [start |-> "none", login |-> "none", extract |-> "none",
           insert |-> "none", shot |-> "none"]

\* hasattr(self, "database") of the CrawlerService the caller uses
HasDatabase(a) == IF a = "direct" THEN cfg.has_database ELSE TRUE

\* ElectricityRecord(balance=balance) made by create_balance_record
create_balance_record(balance) == [balance |-> balance]

----------------------------------------------------------------------------
(* CrawlerService.run_crawl_task *)

\* datetime.now() reads t: the wall clock has advanced by any amount since it
\* was last read
ReadClock(t) == t \in now..MaxClock /\ now' = t

\* the synchronous head of run_crawl_task: start_time and the result dict
CrawlEnter(a, t) ==
    /\ start_time' = [start_time EXCEPT ![a] = t]
    /\ result' = [result EXCEPT ![a] = InitialResult]
    /\ hist' = [hist EXCEPT ![a] = NoHist]
    /\ run' = [run EXCEPT ![a] = @ + 1]

\* NTUTCrawler.close as far as self.page goes: a page that exists is closed
\* (self.page keeps referring to the closed page object)
ClosedPage(p) == IF p = "none" THEN "none" ELSE "closed"

StartOutcomes == {"ok", "fail_launch", "fail_setup"}

\* str(e) of the fault NTUTCrawler.start re-raises
StartFault(o) == IF o = "fail_setup" THEN FAULT_SETUP ELSE FAULT_LAUNCH

\* variant of CaughtFault that leaves error_message as it was
CaughtFault_lost(r, msg) == r

\* the except clause of run_crawl_task: result["error_message"] = str(e)
CaughtFault(r, msg) == [r EXCEPT !.error_message = msg]

\* `async with self.crawler` entering: NTUTCrawler.start. A fault makes start()
\* close what exists and re-raise, which run_crawl_task's except clause
\* catches: the message is stored and a screenshot follows if a page exists.
BrowserStart(a) ==
    /\ pc[a] = "start"
    /\ \E o \in StartOutcomes :
         /\ hist' = [hist EXCEPT ![a].start = o]
         /\ IF o = "ok"
            THEN /\ page' = [page EXCEPT ![Service(a)] = "open"]
                 /\ result' = result
                 /\ pc' = [pc EXCEPT ![a] = "login"]
            ELSE LET p == IF o = "fail_setup" THEN "closed"
                          ELSE ClosedPage(page[Service(a)])
                 IN  /\ page' = [page EXCEPT ![Service(a)] = p]
                     /\ result' = [result EXCEPT ![a] =
                                      CaughtFault(@, StartFault(o))]
                     /\ pc' = [pc EXCEPT ![a] =
                                  IF p # "none" THEN "shot" ELSE "finish"]
    /\ UNCHANGED <<cfg, site, routerVars, summaryVars, dailyVars, lifeVars, levelVars, closeVars, startVars, storeVars, fireVars, now, run, start_time, electricity_records, schedVars>>

\* NTUTCrawler.take_screenshot("error_debug.png") in the except clause: its
\* own fault is caught inside take_screenshot and "" is returned
Screenshot(a) ==
    /\ pc[a] = "shot"
    /\ \E o \in {"ok", "fail"} :
         /\ (o = "ok") => page[Service(a)] = "open"
         /\ hist' = [hist EXCEPT ![a].shot = o]
    /\ pc' = [pc EXCEPT ![a] = "finish"]
    /\ UNCHANGED <<cfg, site, routerVars, summaryVars, dailyVars, lifeVars, levelVars, closeVars, startVars, storeVars, fireVars, now, run, start_time, result, page,
                   electricity_records, schedVars>>

\* how NTUTCrawler.login can end:
\*   marker      the balance label appeared                        -> True
\*   redirect    no label, no error element, url without "login"   -> True
\*   rejected    an error element is shown                         -> False
\*   still_login no label, url still holds "login"                 -> False
\*   timeout     PlaywrightTimeoutError (a screenshot is taken)    -> False
\*   fault       any other exception                               -> False
LoginOutcomes == {"marker", "redirect", "rejected", "still_login", "timeout", "fault"}

login(o) == o \in {"marker", "redirect"}

\* what the history keeps of a login: it returned True ("ok"), or it
\* returned False after a timeout and its screenshot ("timeout"), after
\* another exception ("fault"), or without any exception ("failed")
LoginClass(o) ==
    IF login(o) THEN "ok"
    ELSE IF o \in {"timeout", "fault"} THEN o
    ELSE "failed"

\* variant of LoginFailed that reports a failed login as a partial outcome
LoginFailed_partial(r) ==
    [r EXCEPT !.status = "partial", !.error_message = MSG_LOGIN_FAILED]

\* result["error_message"] = "登入失敗" before the early return (lines 277-280)
LoginFailed(r) == [r EXCEPT !.error_message = MSG_LOGIN_FAILED]

\* login_success = await self.crawler.login(), and the early return on failure
Login(a) ==
    /\ pc[a] = "login"
    /\ \E o \in LoginOutcomes :
         /\ (page[Service(a)] # "open") => o = "fault"
         /\ hist' = [hist EXCEPT ![a].login = LoginClass(o)]
         /\ IF login(o)
            THEN /\ result' = result
                 /\ pc' = [pc EXCEPT ![a] = "extract"]
            ELSE /\ result' = [result EXCEPT ![a] = LoginFailed(@)]
                 /\ pc' = [pc EXCEPT ![a] = "finish"]
    /\ UNCHANGED <<cfg, site, routerVars, summaryVars, dailyVars, lifeVars, levelVars, closeVars, startVars, storeVars, fireVars, now, run, start_time, page, electricity_records,
                   schedVars>>

\* variant of NoPersist that sets no error_message
NoPersist_silent(r) == [r EXCEPT !.status = "partial"]

\* the branch of lines 294-311 taken without touching the store
NoPersist(r) ==
    [r EXCEPT !.status = "partial", !.error_message = MSG_NO_BALANCE_OR_DB]

\* variant of ShouldPersist that also stores a balance of zero
ShouldPersist_zero(a, number) == number >= 0 /\ HasDatabase(a)

\* whether line 294 sends the balance to the store
ShouldPersist(a, number) == number > 0 /\ HasDatabase(a)

\* get_balance, extract_balance_number, and the classification when nothing
\* is to be stored
GetBalance(a) ==
    /\ pc[a] = "extract"
    /\ LET doc == IF page[Service(a)] = "open" THEN site ELSE ClosedDoc
           text == get_balance(page[Service(a)] # "none", doc)
           number == extract_balance_number(text)
           r == [result[a] EXCEPT !.balance_text = text,
                                  !.balance_number = number,
                                  !.keys = @ \cup {"balance_text", "balance_number"}]
       IN  IF ShouldPersist(a, number)
           THEN /\ result' = [result EXCEPT ![a] = r]
                /\ pc' = [pc EXCEPT ![a] = "persist"]
           ELSE /\ result' = [result EXCEPT ![a] = NoPersist(r)]
                /\ pc' = [pc EXCEPT ![a] = "finish"]
    /\ hist' = [hist EXCEPT ![a].extract =
                    IF /\ page[Service(a)] # "none"
                       /\ locator_raised(IF page[Service(a)] = "open"
                                         THEN site ELSE ClosedDoc)
                    THEN "fault" ELSE "ok"]
    /\ UNCHANGED <<cfg, site, routerVars, summaryVars, dailyVars, lifeVars, levelVars, closeVars, startVars, storeVars, fireVars, now, run, start_time, page, electricity_records,
                   schedVars>>

\* variant of Classify that reports a failed insert as an error
Classify_error(r, record, success) ==
    IF success
    THEN [r EXCEPT !.status = "success", !.records_count = 1,
                   !.records = <<record>>]
    ELSE [r EXCEPT !.status = "error", !.error_message = MSG_INSERT_FAILED]

\* variant of Classify whose partial result no longer holds the balance
Classify_unreported(r, record, success) ==
    IF success
    THEN [r EXCEPT !.status = "success", !.records_count = 1,
                   !.records = <<record>>]
    ELSE [r EXCEPT !.status = "partial", !.error_message = MSG_INSERT_FAILED,
                   !.balance_text = <<>>, !.balance_number = 0,
                   !.keys = @ \ {"balance_text", "balance_number"}]

\* the result after insert_electricity_record returned `success` (lines 299-307)
Classify(r, record, success) ==
    IF success
    THEN [r EXCEPT !.status = "success", !.records_count = 1,
                   !.records = <<record>>]
    ELSE [r EXCEPT !.status = "partial", !.error_message = MSG_INSERT_FAILED]

\* an insert that overwrites the newest row instead of adding one
insert_electricity_record_replace(rows, row, success) ==
    IF ~success THEN rows
    ELSE IF rows = <<>> THEN <<row>>
    ELSE [rows EXCEPT ![Len(rows)] = row]

\* Database.insert_electricity_record on the table: INSERT INTO and commit
\* add the row and True is returned, or a fault is caught, nothing is stored
\* and False is returned
insert_electricity_record(rows, row, success) ==
    IF success THEN Append(rows, row) ELSE rows

\* `await self.database.insert_electricity_record(balance_record)` and the
\* branch on what it returned
Persist(a) ==
    /\ pc[a] = "persist"
    /\ LET record == create_balance_record(result[a].balance_number)
       IN  \E success \in BOOLEAN :
             /\ electricity_records' =
                  insert_electricity_record(
                      electricity_records,
                      [balance |-> record.balance, by |-> a, run |-> run[a]],
                      success)
             /\ result' = [result EXCEPT ![a] = Classify(result[a], record, success)]
             /\ hist' = [hist EXCEPT ![a].insert = IF success THEN "ok" ELSE "fail"]
    /\ pc' = [pc EXCEPT ![a] = "finish"]
    /\ UNCHANGED <<cfg, site, routerVars, summaryVars, dailyVars, lifeVars, levelVars, closeVars, startVars, storeVars, fireVars, now, run, start_time, page, schedVars>>

\* (end_time - start_time).total_seconds()
Duration(from, to) == to - from

\* leaving `async with` (NTUTCrawler.__aexit__ closes the page) when it was
\* entered, then the finally clause and `return result`; start_time is a
\* local of the call and goes with it
Finish(a) ==
    /\ pc[a] = "finish"
    /\ page' = IF hist[a].start = "ok"
               THEN [page EXCEPT ![Service(a)] = ClosedPage(@)]
               ELSE page
    /\ \E t \in 0..MaxClock :
         /\ ReadClock(t)
         /\ result' = [result EXCEPT ![a].duration_seconds =
                          Duration(start_time[a], t)]
    /\ start_time' = [start_time EXCEPT ![a] = 0]
    /\ pc' = [pc EXCEPT ![a] = "returned"]
    /\ UNCHANGED <<cfg, site, routerVars, summaryVars, dailyVars, lifeVars, levelVars, closeVars, startVars, storeVars, fireVars, run, hist, electricity_records, schedVars>>

\* a caller is inside its method
InFlight(a) == pc[a] \notin {"idle", "created", "done"}

CrawlStep(a) ==
    \/ BrowserStart(a)
    \/ Screenshot(a)
    \/ Login(a)
    \/ GetBalance(a)
    \/ Persist(a)
    \/ Finish(a)

----------------------------------------------------------------------------
(* Configuration *)

\* settings.notification_balance_threshold
notification_balance_threshold == 100

\* a time of day, datetime.time, in seconds since midnight;
\* time.fromisoformat("HH:MM") is HM(HH, MM)
HMS(h, m, sec) == (h * 60 + m) * 60 + sec
HM(h, m) == HMS(h, m, 0)

\* The settings the program reads, and the wiring of the direct service:
\*   run_on_startup   settings.run_on_startup
\*   discord_url      settings.discord_webhook_url is not empty
\*   telegram         settings.telegram_bot_token and settings.telegram_chat_id:
\*                    "missing" (BotSettings declares no such field, reading it
\*                    raises AttributeError), "empty" or "set"
\*   sched_cfg_valid  settings.cron_schedule parses (CronTrigger.from_crontab)
\*   start_time_valid settings.notification_start_time parses
\*                    (time.fromisoformat)
\*   end_time_valid   settings.notification_end_time parses
\*   notification_start_time, notification_end_time
\*                    the times of day the two settings parse to, when they do
\*   tz_valid         zoneinfo.ZoneInfo(settings.tz) finds the zone
\*   has_database     set_database was called on the direct CrawlerService
\*   min_level        the minimum severity wanted for the Discord channel
\*                    (NotificationLevel.INFO when none is asked for)
DefaultCfg ==
    [run_on_startup |-> TRUE, discord_url |-> TRUE, telegram |-> "empty",
     sched_cfg_valid |-> TRUE, start_time_valid |-> TRUE,
     end_time_valid |-> TRUE, tz_valid |-> TRUE,
     notification_start_time |-> HM(6, 0), notification_end_time |-> HM(23, 0),
     has_database |-> TRUE, min_level |-> INFO]

SchedCfgs ==
    { DefaultCfg,
      [DefaultCfg EXCEPT !.run_on_startup = FALSE],
      [DefaultCfg EXCEPT !.discord_url = FALSE],
      [DefaultCfg EXCEPT !.tz_valid = FALSE],
      [DefaultCfg EXCEPT !.sched_cfg_valid = FALSE],
      [DefaultCfg EXCEPT !.start_time_valid = FALSE],
      [DefaultCfg EXCEPT !.telegram = "missing"],
      [DefaultCfg EXCEPT !.telegram = "set"],
      [DefaultCfg EXCEPT !.min_level = WARNING] }

CrawlCfgs == { DefaultCfg, [DefaultCfg EXCEPT !.has_database = FALSE] }

\* the remote pages of the scheduler's behaviours: a balance below the
\* threshold, one above it and an unreadable page
HighBalanceDoc ==
    [xpath |-> Text(<<"1", "5", "0">>), label |-> Raises, parent |-> Raises]

SchedDocs == { LowBalanceDoc, HighBalanceDoc, UnreadableDoc }

\* the configuration and remote page of a scheduler behaviour: every
\* configuration with the low balance, and the other pages with the default
\* configuration or, for the high balance, the raised channel floor
SchedWorlds ==
    { w \in SchedCfgs \X SchedDocs :
        \/ w[1].min_level = INFO /\ w[2] = LowBalanceDoc
        \/ w[1] = DefaultCfg /\ w[2] = UnreadableDoc
        \/ w[1].min_level = WARNING /\ w[2] = HighBalanceDoc }

----------------------------------------------------------------------------
(* Notification channels of the scheduler: NotificationManager,            *)
(* WebhookNotifier and DiscordNotifier of src/src/notifier/webhook.py,     *)
(* which is the module scheduler.py imports NotificationManager from.      *)

\* TaskScheduler._setup_notifications with webhook.NotificationManager:
\* add_discord_webhook appends a DiscordNotifier when the url is not empty
Notifiers == IF cfg.discord_url THEN {"discord"} ELSE {}

\* TaskScheduler.__init__ returns (otherwise it raises): _setup_scheduler
\* logs and re-raises the ValueError of a bad cron expression or of a
\* notification_start_time that time.fromisoformat cannot parse;
\* _setup_notifications raises AttributeError when settings has no
\* telegram_bot_token, or when it is set, webhook.NotificationManager having
\* no add_telegram_notifier
TaskSchedulerInit ==
    cfg.sched_cfg_valid /\ cfg.start_time_valid /\ cfg.telegram = "empty"

\* WebhookNotifier.send_notification of webhook.py for one notifier: the HTTP
\* post is made once the payload is built; DiscordNotifier._create_payload
\* raises inside the try block when ZoneInfo(settings.tz) fails. There is no
\* comparison of the status with a minimum level (cfg.min_level is not read).
Posts(channel) == cfg.tz_valid

\* NotificationManager._send_to_all: one send_notification per notifier, each
\* in its own try block, its result ignored. The posts made, given who sends
\* what.
send_to_all(by, n, kind, status) ==
    { [by |-> by, run |-> n, kind |-> kind, status |-> status, channel |-> c] :
        c \in {d \in Notifiers : Posts(d)} }

\* NotificationManager._is_within_notification_time: "open" (True), "closed"
\* (False) or "raise". A ValueError of time.fromisoformat is caught and gives
\* True; the KeyError of ZoneInfo is not caught. `within` is whether the
\* current local time lies in the window.
is_within_notification_time(within) ==
    IF ~cfg.start_time_valid \/ ~cfg.end_time_valid THEN "open"
    ELSE IF ~cfg.tz_valid THEN "raise"
    ELSE IF within THEN "open" ELSE "closed"

\* NotificationManager.send_balance_notification up to its call of
\* _send_to_all: "send", "skip" (quiet hours or balance >= threshold) or "raise"
balance_gate(balance, within) ==
    LET t == is_within_notification_time(within)
    IN  IF t = "raise" THEN "raise"
        ELSE IF t = "closed" THEN "skip"
        ELSE IF balance >= notification_balance_threshold * Scale THEN "skip"
        ELSE "send"

----------------------------------------------------------------------------
(* SchedulerManager and TaskScheduler *)

\* the dict returned by SchedulerManager.run_manual_crawl when no scheduler
\* exists (line 311)
NotInitializedResult ==
    [NoResult EXCEPT !.status = "error", !.error_message = MSG_NOT_INITIALIZED,
                     !.keys = {"status", "error_message"}]

\* the dict returned by the except clause of TaskScheduler.run_manual_crawl
ManualErrorResult(msg, duration) ==
    [NoResult EXCEPT !.status = "error", !.error_message = msg,
                     !.records_count = 0, !.duration_seconds = duration,
                     !.keys = {"status", "error_message", "records_count",
                               "duration_seconds"}]

\* crawl attempts the scheduler has started
Started == run["cron"] + run["startup"] + run["manual"]

\* the scheduler method starts: task_start_time, then the crawl's own head
TaskEnter(a) ==
    /\ \E t \in 0..MaxClock :
         /\ ReadClock(t)
         /\ task_start' = [task_start EXCEPT ![a] = t]
         /\ CrawlEnter(a, t)
    /\ log_calls' = [log_calls EXCEPT ![a] = 0]
    /\ raised' = [raised EXCEPT ![a] = NONE]
    /\ outcome' = [outcome EXCEPT ![a] = NoResult]
    /\ pc' = [pc EXCEPT ![a] = "start"]

\* the caller's method returns: its locals (result, the history of the
\* attempt, task_start_time, the caught fault) go with it
TaskLeave(a) ==
    /\ result' = [result EXCEPT ![a] = NoResult]
    /\ hist' = [hist EXCEPT ![a] = NoHist]
    /\ task_start' = [task_start EXCEPT ![a] = 0]
    /\ raised' = [raised EXCEPT ![a] = NONE]
    /\ pc' = [pc EXCEPT ![a] = "done"]

\* SchedulerManager.start: TaskScheduler() when none exists, then
\* TaskScheduler.start up to `await self.database.init_database()`
ManagerStart ==
    /\ boot = "idle"
    /\ IF manager_scheduler = "none" /\ ~TaskSchedulerInit
       THEN /\ boot' = "failed"
            /\ UNCHANGED manager_scheduler
       ELSE /\ manager_scheduler' = "created"
            /\ boot' = IF is_running THEN "done" ELSE "init_db"
    /\ UNCHANGED <<cfg, site, routerVars, summaryVars, dailyVars, lifeVars, levelVars, closeVars, startVars, storeVars, fireVars, now, pc, run, crawlVars, crawler_logs, log_calls,
                   task_start, outcome, raised, is_running, deliveries, http>>

\* init_database returns and the APScheduler is started, or it raises and
\* start() re-raises
BootInitDatabase ==
    /\ boot = "init_db"
    /\ \E ok \in BOOLEAN :
         IF ok THEN is_running' = TRUE /\ boot' = "notify"
         ELSE is_running' = is_running /\ boot' = "failed"
    /\ UNCHANGED <<cfg, site, routerVars, summaryVars, dailyVars, lifeVars, levelVars, closeVars, startVars, storeVars, fireVars, now, pc, run, crawlVars, crawler_logs, log_calls,
                   task_start, outcome, raised, manager_scheduler, deliveries, http>>

\* send_startup_notification, then the startup crawl task is created when
\* settings.run_on_startup
BootNotify ==
    /\ boot = "notify"
    /\ deliveries' = deliveries \cup send_to_all("boot", 0, "startup", "info")
    /\ pc' = IF cfg.run_on_startup /\ pc["startup"] = "idle"
             THEN [pc EXCEPT !["startup"] = "created"] ELSE pc
    /\ boot' = "done"
    /\ UNCHANGED <<cfg, site, routerVars, summaryVars, dailyVars, lifeVars, levelVars, closeVars, startVars, storeVars, fireVars, now, run, crawlVars, crawler_logs, log_calls,
                   task_start, outcome, raised, manager_scheduler, is_running, http>>

\* the event loop runs the task made by asyncio.create_task(self.run_crawl_task())
StartupTask ==
    /\ pc["startup"] = "created"
    /\ Started < MaxAttempts
    /\ TaskEnter("startup")
    /\ UNCHANGED <<cfg, site, routerVars, summaryVars, dailyVars, lifeVars, levelVars, closeVars, startVars, storeVars, fireVars, page, electricity_records, crawler_logs,
                   manager_scheduler, is_running, boot,
                   deliveries, http>>

\* SchedulerManager.stop: TaskScheduler.stop shuts the APScheduler down
ManagerStop ==
    /\ manager_scheduler = "created"
    /\ is_running
    /\ is_running' = FALSE
    /\ UNCHANGED <<cfg, site, routerVars, summaryVars, dailyVars, lifeVars, levelVars, closeVars, startVars, storeVars, fireVars, now, pc, run, crawlVars, crawler_logs, log_calls,
                   task_start, outcome, raised, manager_scheduler, boot, deliveries, http>>

\* an instance of the job electricity_crawl_task is running
CronInstanceRunning == pc["cron"] \notin {"idle", "done"}

\* max_instances of the job electricity_crawl_task
max_instances == 1

\* a scheduler without the limit: every due run is handed to the executor
submit_job_unlimited(instances) == "run"

\* the executor's submit_job for a due run of the job: with max_instances
\* instances of it running the run is refused (MaxInstancesReachedError, which
\* the scheduler logs before it moves on to the next fire time), otherwise
\* the run is started
submit_job(instances) ==
    IF instances >= max_instances THEN "skip" ELSE "run"

\* running instances of the job electricity_crawl_task
CronInstances == IF CronInstanceRunning THEN 1 ELSE 0

\* the cron trigger comes due and the scheduler processes the job
ProcessDueJob ==
    /\ is_running
    /\ LET decision == submit_job(CronInstances)
       IN  /\ decision = "run" => Started < MaxAttempts
           /\ IF decision = "skip"
              THEN UNCHANGED <<now, pc, run, start_time, result, hist,
                               task_start, log_calls, raised, outcome>>
              ELSE TaskEnter("cron")
    /\ UNCHANGED <<cfg, site, routerVars, summaryVars, dailyVars, lifeVars, levelVars, closeVars, startVars, storeVars, page, electricity_records, crawler_logs,
                   manager_scheduler, is_running, boot, deliveries, http>>

\* the cron trigger fires; the triggers are not counted here
CronFire == ProcessDueJob /\ UNCHANGED fireVars

\* the cron trigger fires and is counted by what it found: no instance of
\* the job running (idle) or one running (busy)
CronTrigger ==
    /\ fired.idle + fired.busy < MaxFires
    /\ ProcessDueJob
    /\ fired' = IF CronInstanceRunning
                THEN [fired EXCEPT !.busy = @ + 1]
                ELSE [fired EXCEPT !.idle = @ + 1]

\* SchedulerManager.run_manual_crawl
ManualCrawl ==
    /\ pc["manual"] = "idle"
    /\ manager_scheduler = "none" \/ Started < MaxAttempts
    /\ IF manager_scheduler = "none"
       THEN /\ outcome' = [outcome EXCEPT !["manual"] = NotInitializedResult]
            /\ pc' = [pc EXCEPT !["manual"] = "done"]
            /\ run' = [run EXCEPT !["manual"] = @ + 1]
            /\ UNCHANGED <<now, start_time, result, hist, task_start,
                           log_calls, raised>>
       ELSE TaskEnter("manual")
    /\ UNCHANGED <<cfg, site, routerVars, summaryVars, dailyVars, lifeVars, levelVars, closeVars, startVars, storeVars, fireVars, page, electricity_records, crawler_logs,
                   manager_scheduler, is_running, boot,
                   deliveries, http>>

\* the CrawlerLog row of a log entry
LogRow(a, status, count, msg, duration) ==
    [by |-> a, run |-> run[a], ord |-> log_calls[a] + 1, status |-> status,
     records_count |-> count, error_message |-> msg,
     duration_seconds |-> duration]

\* Database.insert_crawler_log: the row is stored, or a fault is caught and
\* nothing is stored
insert_crawler_log(row, stored) ==
    IF stored THEN crawler_logs \cup {row} ELSE crawler_logs

\* TaskScheduler._process_crawl_result up to `await insert_crawler_log`
ProcessLog(a) ==
    /\ a \in SchedAttempts
    /\ pc[a] = "returned"
    /\ \E stored \in BOOLEAN :
         crawler_logs' = insert_crawler_log(
             LogRow(a, result[a].status, result[a].records_count,
                    result[a].error_message, result[a].duration_seconds), stored)
    /\ log_calls' = [log_calls EXCEPT ![a] = @ + 1]
    /\ pc' = [pc EXCEPT ![a] = "notify"]
    /\ UNCHANGED <<cfg, site, routerVars, summaryVars, dailyVars, lifeVars, levelVars, closeVars, startVars, storeVars, fireVars, now, run, crawlVars, task_start, outcome, raised,
                   manager_scheduler, is_running, boot,
                   deliveries, http>>

\* what _process_crawl_result sends for a result, lines 150-166:
\* [kind, status, gate] with gate "send", "skip" or "raise"
Notification(r, within) ==
    IF r.status = "success"
    THEN [kind |-> "balance", status |-> "success",
          gate |-> balance_gate(r.records[1].balance, within)]
    ELSE IF r.status = "partial"
    THEN [kind |-> "partial", status |-> "warning", gate |-> "send"]
    ELSE [kind |-> "error", status |-> "error", gate |-> "send"]

\* the exceptions raised inside the try blocks of the scheduler's methods
Exceptions ==
    {FAULT_LAUNCH, FAULT_SETUP, FAULT_LOGIN, FAULT_EXTRACT, FAULT_INSERT, FAULT_TZ}

\* an except clause that names ValueError: the KeyError that
\* ZoneInfoNotFoundError is passes it
except_ValueError(fault) == fault \in Exceptions \ {FAULT_TZ}

\* `except Exception as e` of run_crawl_task and run_manual_crawl catches the
\* fault
except_Exception(fault) == fault \in Exceptions

\* the rest of _process_crawl_result, and what its caller does next: the
\* result is returned (run_manual_crawl), or a fault is caught by the caller
ProcessNotify(a) ==
    /\ a \in SchedAttempts
    /\ pc[a] = "notify"
    /\ \E within \in BOOLEAN :
         LET n == Notification(result[a], within)
         IN  /\ deliveries' =
                  IF n.gate = "send"
                  THEN deliveries \cup send_to_all(a, run[a], n.kind, n.status)
                  ELSE deliveries
             /\ IF n.gate # "raise"
                THEN /\ outcome' = [outcome EXCEPT ![a] =
                                       IF a = "manual" THEN result[a] ELSE @]
                     /\ TaskLeave(a)
                     /\ UNCHANGED now
                ELSE IF ~except_Exception(FAULT_TZ)
                THEN /\ raised' = [raised EXCEPT ![a] = FAULT_TZ]
                     /\ pc' = [pc EXCEPT ![a] = "escaped"]
                     /\ UNCHANGED <<now, outcome, result, hist, task_start>>
                ELSE IF a = "manual"
                THEN /\ \E t \in 0..MaxClock :
                          /\ ReadClock(t)
                          /\ outcome' = [outcome EXCEPT ![a] =
                                 ManualErrorResult(FAULT_TZ,
                                                   Duration(task_start[a], t))]
                     /\ TaskLeave(a)
                ELSE /\ raised' = [raised EXCEPT ![a] = FAULT_TZ]
                     /\ pc' = [pc EXCEPT ![a] = "errlog"]
                     /\ UNCHANGED <<now, outcome, result, hist, task_start>>
    /\ UNCHANGED <<cfg, site, routerVars, summaryVars, dailyVars, lifeVars, levelVars, closeVars, startVars, storeVars, fireVars, run, start_time, page, electricity_records,
                   crawler_logs, log_calls, manager_scheduler, is_running, boot, http>>

\* the except clause of TaskScheduler.run_crawl_task, lines 125-133
ErrorLog(a) ==
    /\ a \in SchedAttempts
    /\ pc[a] = "errlog"
    /\ \E stored \in BOOLEAN, t \in 0..MaxClock :
         /\ ReadClock(t)
         /\ crawler_logs' = insert_crawler_log(
                LogRow(a, "error", 0, raised[a], Duration(task_start[a], t)), stored)
    /\ log_calls' = [log_calls EXCEPT ![a] = @ + 1]
    /\ pc' = [pc EXCEPT ![a] = "errnotify"]
    /\ UNCHANGED <<cfg, site, routerVars, summaryVars, dailyVars, lifeVars, levelVars, closeVars, startVars, storeVars, fireVars, run, crawlVars, task_start, outcome, raised,
                   manager_scheduler, is_running, boot,
                   deliveries, http>>

\* send_crawl_error_notification of the except clause, lines 134-136
ErrorNotify(a) ==
    /\ a \in SchedAttempts
    /\ pc[a] = "errnotify"
    /\ deliveries' = deliveries \cup send_to_all(a, run[a], "error", "error")
    /\ TaskLeave(a)
    /\ UNCHANGED <<cfg, site, routerVars, summaryVars, dailyVars, lifeVars, levelVars, closeVars, startVars, storeVars, fireVars, now, run, start_time, page, electricity_records,
                   crawler_logs, log_calls, outcome, manager_scheduler,
                   is_running, boot, http>>

----------------------------------------------------------------------------
(* The balance API and the direct use of CrawlerService *)

\* run_crawl_task is called on a CrawlerService of its own
DirectCall ==
    /\ pc["direct"] = "idle"
    /\ TaskEnter("direct")
    /\ UNCHANGED <<cfg, site, routerVars, summaryVars, dailyVars, lifeVars, levelVars, closeVars, startVars, storeVars, fireVars, page, electricity_records, crawler_logs,
                   manager_scheduler, is_running, boot,
                   deliveries, http>>

\* its caller receives the result
DirectReturn ==
    /\ pc["direct"] = "returned"
    /\ outcome' = [outcome EXCEPT !["direct"] = result["direct"]]
    /\ TaskLeave("direct")
    /\ UNCHANGED <<cfg, site, routerVars, summaryVars, dailyVars, lifeVars, levelVars, closeVars, startVars, storeVars, fireVars, now, run, start_time, page, electricity_records,
                   crawler_logs, log_calls, manager_scheduler, is_running, boot, deliveries, http>>

\* the body FastAPI answers with for HTTPException(status_code=500,
\* detail=error_message), lines 125-129: {"detail": ...} and nothing else
HTTPException ==
    [NoResult EXCEPT !.status = "fault", !.keys = {"detail"}]

\* record.model_dump(mode="json"): the fields of ElectricityRecord as a dict,
\* id None, created_at as an ISO 8601 string
model_dump(record) ==
    [id |-> <<>>, balance |-> record.balance, created_at |-> "ISO 8601"]

\* lines 102-106: the records of the result replaced by their dicts
content(r) == [r EXCEPT !.records = [i \in 1..Len(@) |-> model_dump(@[i])]]

\* GET /api/v1/balance: init_database, which may raise (HTTPException 500),
\* then run_crawl_task
ApiRequest ==
    /\ pc["api"] = "idle"
    /\ \E ok \in BOOLEAN :
         IF ok
         THEN /\ TaskEnter("api")
              /\ UNCHANGED http
         ELSE /\ http' = 500
              /\ outcome' = [outcome EXCEPT !["api"] = HTTPException]
              /\ pc' = [pc EXCEPT !["api"] = "done"]
              /\ run' = [run EXCEPT !["api"] = @ + 1]
              /\ UNCHANGED <<now, start_time, result, hist, task_start,
                             log_calls, raised>>
    /\ UNCHANGED <<cfg, site, routerVars, summaryVars, dailyVars, lifeVars, levelVars, closeVars, startVars, storeVars, fireVars, page, electricity_records, crawler_logs,
                   manager_scheduler, is_running, boot,
                   deliveries>>

\* variant of StatusCode that answers 200 for a partial result too
StatusCode_ok(r) ==
    IF r.status \in {"success", "partial"} THEN 200 ELSE 500

\* the status code get_balance answers with, lines 109-123
StatusCode(r) ==
    IF r.status = "success" THEN 200
    ELSE IF r.status = "partial" THEN 207
    ELSE 500

\* the JSON response is built from the result
ApiRespond ==
    /\ pc["api"] = "returned"
    /\ outcome' = [outcome EXCEPT !["api"] = content(result["api"])]
    /\ http' = StatusCode(result["api"])
    /\ TaskLeave("api")
    /\ UNCHANGED <<cfg, site, routerVars, summaryVars, dailyVars, lifeVars, levelVars, closeVars, startVars, storeVars, fireVars, now, run, start_time, page, electricity_records,
                   crawler_logs, log_calls, manager_scheduler, is_running, boot, deliveries>>

----------------------------------------------------------------------------
(* The notification router: NotificationManager of                          *)
(* src/src/notifier/manager.py with the channels of base.py, discord.py and *)
(* telegram.py. A channel is a record of its class and its min_level.       *)

\* NotificationManager.add_discord_webhook with a url that is not empty
add_discord_webhook(list, min_level) ==
    Append(list, [kind |-> "discord", min_level |-> min_level])

\* NotificationManager.add_telegram_notifier with a token and a chat id
add_telegram_notifier(list, min_level) ==
    Append(list, [kind |-> "telegram", min_level |-> min_level])

\* the managers of the router's behaviours: no channel, one channel, the two
\* channels of test_notification_levels.py in both orders, the widest and
\* the narrowest floor together, and three channels
NotifierLists ==
    { <<>>,
      add_discord_webhook(<<>>, INFO),
      add_telegram_notifier(add_discord_webhook(<<>>, WARNING), ERROR),
      add_discord_webhook(add_telegram_notifier(<<>>, ERROR), WARNING),
      add_telegram_notifier(add_discord_webhook(<<>>, DEBUG), CRITICAL),
      add_discord_webhook(
          add_telegram_notifier(add_discord_webhook(<<>>, SUCCESS), INFO),
          ERROR) }

\* the settings of the router's behaviours: the default window 06:00-23:00,
\* a window that wraps midnight, a window of one instant, a start time or
\* an end time that does not parse, and a time zone that is not found
RouterCfgs ==
    { DefaultCfg,
      [DefaultCfg EXCEPT !.notification_start_time = HM(23, 0),
                         !.notification_end_time = HM(6, 0)],
      [DefaultCfg EXCEPT !.notification_start_time = HM(12, 0),
                         !.notification_end_time = HM(12, 0)],
      [DefaultCfg EXCEPT !.start_time_valid = FALSE],
      [DefaultCfg EXCEPT !.end_time_valid = FALSE],
      [DefaultCfg EXCEPT !.tz_valid = FALSE] }

\* datetime.now(local_tz).time() when send_balance_notification reads it
Clocks ==
    { HM(5, 0), HM(6, 0), HMS(6, 0, 1), HM(12, 0), HMS(22, 59, 59),
      HM(23, 0), HMS(23, 0, 1), HM(23, 30) }

\* balance_number given to send_balance_notification, in 1/Scale:
\* 99.99, 100.00, 100.01 and 150.00
Balances ==
    { notification_balance_threshold * Scale - 1,
      notification_balance_threshold * Scale,
      notification_balance_threshold * Scale + 1,
      (notification_balance_threshold + 50) * Scale }

\* the levels of NotificationLevel
Levels == {DEBUG, INFO, SUCCESS, WARNING, ERROR, CRITICAL}

\* what the manager holds of the notification it is routing:
\*   kind    which send_* method was called ("raw": _send_to_all itself)
\*   level   the level handed to _send_to_all
\*   balance balance_number (balance only)
\*   clock   the local time at the call, which only send_balance_notification
\*           reads
\*   chart   chart_path is given and the file exists (summary only)
\*   gate    what send_balance_notification decided: send, quiet, threshold
\*           or raise ("none" for the other kinds)
\*   routed  _send_to_all was called
NoEvent ==
    [kind |-> "none", level |-> 0, balance |-> 0, clock |-> 0,
     chart |-> FALSE, gate |-> "none", routed |-> FALSE]

Event(kind, level) == [NoEvent EXCEPT !.kind = kind, !.level = level]

\* variant of within_window that leaves the end of the window out
within_window_open(start, end, current_time) ==
    IF start <= end
    THEN start <= current_time /\ current_time < end
    ELSE current_time >= start \/ current_time < end

\* the comparison of _is_within_notification_time (lines 57-62)
within_window(start, end, current_time) ==
    IF start <= end
    THEN start <= current_time /\ current_time <= end
    ELSE current_time >= start \/ current_time <= end

\* NotificationManager._is_within_notification_time of manager.py: "open"
\* (True), "closed" (False) or "raise". The ValueError of time.fromisoformat
\* is caught and gives True; the ZoneInfoNotFoundError (a KeyError) of
\* ZoneInfo(settings.tz), which comes after both parses, is not caught.
mgr_is_within_notification_time(current_time) ==
    IF ~cfg.start_time_valid \/ ~cfg.end_time_valid THEN "open"
    ELSE IF ~cfg.tz_valid THEN "raise"
    ELSE IF within_window(cfg.notification_start_time,
                          cfg.notification_end_time, current_time)
         THEN "open"
         ELSE "closed"

\* variant of mgr_balance_gate that lets a balance equal to the threshold
\* through
mgr_balance_gate_above(balance_number, current_time) ==
    LET t == mgr_is_within_notification_time(current_time)
    IN  IF t = "raise" THEN "raise"
        ELSE IF t = "closed" THEN "quiet"
        ELSE IF balance_number > notification_balance_threshold * Scale
             THEN "threshold"
        ELSE "send"

\* variant of mgr_balance_gate that compares the balance with the threshold
\* before it looks at the time
mgr_balance_gate_threshold_first(balance_number, current_time) ==
    IF balance_number >= notification_balance_threshold * Scale
    THEN "threshold"
    ELSE LET t == mgr_is_within_notification_time(current_time)
         IN  IF t = "raise" THEN "raise"
             ELSE IF t = "closed" THEN "quiet"
             ELSE "send"

\* NotificationManager.send_balance_notification of manager.py up to its call
\* of _send_to_all: the window first, then the threshold
mgr_balance_gate(balance_number, current_time) ==
    LET t == mgr_is_within_notification_time(current_time)
    IN  IF t = "raise" THEN "raise"
        ELSE IF t = "closed" THEN "quiet"
        ELSE IF balance_number >= notification_balance_threshold * Scale
             THEN "threshold"
        ELSE "send"

\* variant of send_notification whose floor also drops the level equal to
\* min_level
send_notification_strict(notifier, level) ==
    IF level <= notifier.min_level THEN {"skipped"}
    ELSE IF ~cfg.tz_valid THEN {"payload_error"}
    ELSE {"ok", "rejected", "client_error"}

\* WebhookNotifier.send_notification of base.py for one channel, the results
\* it can have:
\*   skipped        level < min_level: False before the try block
\*   payload_error  _create_payload raised inside the try block
\*                  (ZoneInfo(settings.tz)), nothing was posted
\*   client_error   session.post raised
\*   rejected       a status other than 200 and 204
\*   ok             status 200 or 204
\* The url of a channel the manager added is never empty.
send_notification(notifier, level) ==
    IF level < notifier.min_level THEN {"skipped"}
    ELSE IF ~cfg.tz_valid THEN {"payload_error"}
    ELSE {"ok", "rejected", "client_error"}

\* a call of send_notification that reached the try block (lines 46-69): one
\* attempt to deliver
Attempted(s) == s.result # "skipped"

\* DiscordNotifier / TelegramNotifier.send_chart_notification: no level, time
\* or balance is read; the file is opened and posted once, every exception is
\* caught
send_chart_notification(notifier) == {"ok", "rejected", "error"}

\* variant of ChartCapable that also wants the channel's floor to admit the
\* INFO level of the daily summary
ChartCapable_floor(notifier) ==
    notifier.kind \in {"discord", "telegram"} /\ INFO >= notifier.min_level

\* isinstance(notifier, (DiscordNotifier, TelegramNotifier)) (line 136)
ChartCapable(notifier) == notifier.kind \in {"discord", "telegram"}

routerFrame ==
    <<cfg, site, now, pc, run, crawlVars, schedVars, notifiers, summaryVars,
      dailyVars, lifeVars, levelVars, closeVars, startVars, storeVars, fireVars>>

\* where a send_* method goes once _send_to_all has returned: only
\* send_daily_summary_notification goes on, to _send_chart_to_all, when a
\* chart exists; _send_chart_to_all returns at once without notifiers
AfterText(ev) ==
    IF ev.kind = "summary" /\ ev.chart /\ notifiers # <<>>
    THEN "charting"
    ELSE "done"

\* a send_* method calls _send_to_all, which returns at once without
\* notifiers
Dispatch(ev) ==
    /\ mpc = "idle"
    /\ event' = [ev EXCEPT !.routed = TRUE]
    /\ sends' = <<>>
    /\ chart_sends' = <<>>
    /\ mpc' = IF notifiers = <<>> THEN AfterText(ev) ELSE "sending"
    /\ UNCHANGED routerFrame

\* the methods below read neither the clock nor a balance; event.clock keeps
\* the local time at which the method was called

\* variant of send_crawl_error_notification that checks the window first
send_crawl_error_notification_gated ==
    \E t \in Clocks :
        LET ev == [Event("error", ERROR) EXCEPT !.clock = t]
        IN  IF mgr_is_within_notification_time(t) = "open"
            THEN Dispatch(ev)
            ELSE /\ mpc = "idle"
                 /\ event' = ev
                 /\ mpc' = "done"
                 /\ UNCHANGED <<sends, chart_sends, routerFrame>>

send_crawl_error_notification ==
    \E t \in Clocks : Dispatch([Event("error", ERROR) EXCEPT !.clock = t])

send_partial_success_notification ==
    \E t \in Clocks : Dispatch([Event("partial", WARNING) EXCEPT !.clock = t])

send_startup_notification ==
    \E t \in Clocks : Dispatch([Event("startup", INFO) EXCEPT !.clock = t])

\* the text goes through _send_to_all at INFO; the chart follows when
\* chart_path is given and the file exists
send_daily_summary_notification ==
    \E t \in Clocks, chart \in BOOLEAN :
        Dispatch([Event("summary", INFO) EXCEPT !.clock = t, !.chart = chart])

\* _send_to_all called with a level of the caller's choice, as
\* test_notification_levels.py does
send_to_all_raw == \E level \in Levels : Dispatch(Event("raw", level))

send_balance_notification ==
    \E b \in Balances, t \in Clocks :
        LET g == mgr_balance_gate(b, t)
            ev == [Event("balance", SUCCESS) EXCEPT
                       !.balance = b, !.clock = t, !.gate = g]
        IN  IF g = "send"
            THEN Dispatch(ev)
            ELSE /\ mpc = "idle"
                 /\ event' = ev
                 /\ mpc' = IF g = "raise" THEN "raised" ELSE "done"
                 /\ UNCHANGED <<sends, chart_sends, routerFrame>>

\* one turn of the loop of _send_to_all: send_notification on the next
\* notifier, in its own try block, its result ignored
SendToAllStep ==
    /\ mpc = "sending"
    /\ LET i == Len(sends) + 1
       IN  /\ \E r \in send_notification(notifiers[i], event.level) :
                 sends' = Append(sends, [channel |-> i, result |-> r])
           /\ mpc' = IF i = Len(notifiers) THEN AfterText(event) ELSE "sending"
    /\ UNCHANGED <<event, chart_sends, routerFrame>>

\* one turn of the loop of _send_chart_to_all
SendChartStep ==
    /\ mpc = "charting"
    /\ LET i == Len(chart_sends) + 1
       IN  /\ IF ChartCapable(notifiers[i])
              THEN \E r \in send_chart_notification(notifiers[i]) :
                     chart_sends' =
                         Append(chart_sends, [channel |-> i, result |-> r])
              ELSE chart_sends' =
                         Append(chart_sends, [channel |-> i, result |-> "none"])
           /\ mpc' = IF i = Len(notifiers) THEN "done" ELSE "charting"
    /\ UNCHANGED <<event, sends, routerFrame>>

\* the send_* method has returned or raised to its caller; its locals go
ManagerReturn ==
    /\ mpc \in {"done", "raised"}
    /\ event' = NoEvent
    /\ mpc' = "idle"
    /\ sends' = <<>>
    /\ chart_sends' = <<>>
    /\ UNCHANGED routerFrame

----------------------------------------------------------------------------
(* The daily usage summary: Database.get_yesterday_records and              *)
(* Database.get_daily_usage_summary of src/src/database/database.py.        *)
(* Balances are floats, kept as integers in 1/Scale.                        *)

\* the builtin max of Python
Max(a, b) == IF a >= b THEN a ELSE b

\* the balances a row of the day may hold: 460, 480, 500 and 520
BalanceValues == { 460 * Scale, 480 * Scale, 500 * Scale, 520 * Scale }

\* the i-th row of the day in the order of the query (ORDER BY created_at
\* ASC): ElectricityRecord with its balance and its created_at, a time of day
Reading(i, b) == [balance |-> b, created_at |-> HMS(i, 0, 30)]

\* the rows the table may hold for the target date
ReadingSeqs ==
    UNION { { [i \in 1..n |-> Reading(i, f[i])] : f \in [1..n -> BalanceValues] } :
            n \in 0..MaxReadings }

\* Database.get_yesterday_records: the rows of the target date in ascending
\* order of created_at, or [] when the query raises
get_yesterday_records(rows, ok) == IF ok THEN rows ELSE <<>>

\* variant of InsufficientData that takes a single reading as enough
InsufficientData_one(records) == Len(records) < 1

\* `len(records) < 2` (line 186)
InsufficientData(records) == Len(records) < 2

\* variant of total_usage without the clamp
total_usage_signed(records) ==
    records[1].balance - records[Len(records)].balance

\* max(0, start_balance - end_balance) (lines 196-198, 219)
total_usage(records) ==
    Max(0, records[1].balance - records[Len(records)].balance)

\* created_at.strftime("%H:%M"): the hour and the minute, as minutes of the day
strftime_HM(created_at) == created_at \div 60

\* variant of hourly_usage that compares each reading with the first one
hourly_usage_from_start(records) ==
    [ k \in 1..(Len(records) - 1) |->
        [time |-> strftime_HM(records[k + 1].created_at),
         usage |-> Max(0, records[1].balance - records[k + 1].balance),
         balance |-> records[k + 1].balance] ]

\* variant of hourly_usage whose loop starts at the first reading, which is
\* then compared with records[-1], the last one
hourly_usage_all(records) ==
    [ k \in 1..Len(records) |->
        LET prev == IF k = 1 THEN records[Len(records)] ELSE records[k - 1]
        IN  [time |-> strftime_HM(records[k].created_at),
             usage |-> Max(0, prev.balance - records[k].balance),
             balance |-> records[k].balance] ]

\* variant of hourly_usage without the clamp of each entry
hourly_usage_unclamped(records) ==
    [ k \in 1..(Len(records) - 1) |->
        [time |-> strftime_HM(records[k + 1].created_at),
         usage |-> records[k].balance - records[k + 1].balance,
         balance |-> records[k + 1].balance] ]

\* the loop of lines 201-215: one entry per reading after the first, the
\* k-th entry for records[k] (0-based) against records[k - 1]
hourly_usage(records) ==
    [ k \in 1..(Len(records) - 1) |->
        [time |-> strftime_HM(records[k + 1].created_at),
         usage |-> Max(0, records[k].balance - records[k + 1].balance),
         balance |-> records[k + 1].balance] ]

\* the date asked for, "YYYY-MM-DD"
TARGET_DATE == "target date"

\* Database.get_daily_usage_summary on the records the query gave; None is
\* <<>> and a balance b is <<b>>
get_daily_usage_summary(records) ==
    IF InsufficientData(records)
    THEN [date |-> TARGET_DATE, total_usage |-> 0, start_balance |-> <<>>,
          end_balance |-> <<>>, hourly_usage |-> <<>>]
    ELSE [date |-> TARGET_DATE, total_usage |-> total_usage(records),
          start_balance |-> <<records[1].balance>>,
          end_balance |-> <<records[Len(records)].balance>>,
          hourly_usage |-> hourly_usage(records)]

\* variant of GetDailyUsageSummary that consumes the first row it read
GetDailyUsageSummary_consuming ==
    /\ earlier = <<>>
    /\ \E ok \in BOOLEAN :
         /\ query_ok' = ok
         /\ daily_summary' =
              <<get_daily_usage_summary(get_yesterday_records(readings, ok))>>
    /\ earlier' = IF daily_summary = <<>> THEN <<>>
                  ELSE <<[ok |-> query_ok, summary |-> daily_summary[1]]>>
    /\ readings' = IF readings = <<>> THEN readings ELSE Tail(readings)
    /\ UNCHANGED <<cfg, site, now, pc, run, crawlVars, schedVars, routerVars,
                   dailyVars, lifeVars, levelVars, closeVars, startVars, storeVars, fireVars>>

\* a caller awaits get_daily_usage_summary(target_date), for the first time
\* or once more for the same date: the query works or raises (and is caught)
\* at each call, and nothing is written
GetDailyUsageSummary ==
    /\ earlier = <<>>
    /\ \E ok \in BOOLEAN :
         /\ query_ok' = ok
         /\ daily_summary' =
              <<get_daily_usage_summary(get_yesterday_records(readings, ok))>>
    /\ earlier' = IF daily_summary = <<>> THEN <<>>
                  ELSE <<[ok |-> query_ok, summary |-> daily_summary[1]]>>
    /\ UNCHANGED <<cfg, site, now, pc, run, crawlVars, schedVars, routerVars,
                   dailyVars, lifeVars, levelVars, closeVars, startVars, storeVars, fireVars, readings>>

\* the caller drops the summaries
DropSummary ==
    /\ daily_summary # <<>>
    /\ daily_summary' = <<>>
    /\ earlier' = <<>>
    /\ query_ok' = TRUE
    /\ UNCHANGED <<cfg, site, now, pc, run, crawlVars, schedVars, routerVars,
                   dailyVars, lifeVars, levelVars, closeVars, startVars, storeVars, fireVars, readings>>

----------------------------------------------------------------------------
(* The daily summary task: TaskScheduler.run_daily_summary_task and         *)
(* TaskScheduler.run_manual_daily_summary of scheduler.py, on a scheduler   *)
(* that was constructed. Its notification_manager is an instance of         *)
(* webhook.NotificationManager, the class scheduler.py imports (line 16).   *)

\* the methods of the notification manager the scheduler holds that the
\* daily summary task calls: webhook.NotificationManager (webhook.py
\* 153-240) defines the crawl and startup notifications and _send_to_all,
\* and no send_daily_summary_notification
ManagerMethods ==
    { "send_crawl_error_notification", "send_partial_success_notification",
      "send_startup_notification", "send_balance_notification" }

\* self.notification_manager.send_daily_summary_notification(...): the
\* attribute lookup raises AttributeError when the class has no such method;
\* otherwise one INFO text is routed, and the chart after it when a path is
\* given and the file exists (manager.py 92-126)
daily_summary_notes(chart) ==
    IF "send_daily_summary_notification" \notin ManagerMethods
    THEN <<>>
    ELSE IF chart # <<>>
    THEN <<[what |-> "text", level |-> INFO], [what |-> "chart", level |-> INFO]>>
    ELSE <<[what |-> "text", level |-> INFO]>>

dailyFrame ==
    <<cfg, site, now, pc, run, crawlVars, schedVars, routerVars, lifeVars,
      levelVars, closeVars, startVars, storeVars, fireVars, readings, earlier>>

\* the task starts and awaits get_daily_usage_summary(target_date)
DailyTaskStart ==
    /\ daily_pc = "idle"
    /\ \E kind \in {"scheduled", "manual"} : daily_kind' = kind
    /\ \E ok \in BOOLEAN :
         /\ query_ok' = ok
         /\ daily_summary' =
              <<get_daily_usage_summary(get_yesterday_records(readings, ok))>>
    /\ daily_pc' = "summarised"
    /\ chart_path' = <<>>
    /\ daily_notes' = <<>>
    /\ daily_result' = "none"
    /\ UNCHANGED dailyFrame

\* the summary has a positive total_usage: generate_daily_usage_chart is
\* awaited; it returns the path of the file it saved, or None when it failed
\* (an exception of it is caught at scheduler.py 195 in the scheduled task)
DailyChart ==
    /\ daily_pc = "summarised"
    /\ daily_summary[1].total_usage > 0
    /\ \E path \in {<<>>, <<"chart">>} : chart_path' = path
    /\ daily_pc' = "charted"
    /\ UNCHANGED <<daily_kind, daily_notes, daily_result, query_ok,
                   daily_summary, dailyFrame>>

\* send_daily_summary_notification is called, without a chart when
\* total_usage <= 0; the AttributeError of the call is caught by the except
\* clause of the task (lines 209-210, 264-270), which logs it, the manual
\* task returning an error dict
DailySend ==
    /\ \/ daily_pc = "charted"
       \/ daily_pc = "summarised" /\ daily_summary[1].total_usage <= 0
    /\ daily_notes' = daily_summary_notes(chart_path)
    /\ daily_result' =
         IF "send_daily_summary_notification" \in ManagerMethods
         THEN "success"
         ELSE "error"
    /\ daily_pc' = "done"
    /\ UNCHANGED <<daily_kind, chart_path, query_ok, daily_summary, dailyFrame>>

\* the task has returned; its locals go
DailyTaskLeave ==
    /\ daily_pc = "done"
    /\ daily_pc' = "idle"
    /\ daily_kind' = "none"
    /\ chart_path' = <<>>
    /\ daily_notes' = <<>>
    /\ daily_result' = "none"
    /\ daily_summary' = <<>>
    /\ query_ok' = TRUE
    /\ UNCHANGED dailyFrame

----------------------------------------------------------------------------
(* The process: main() of main.py under asyncio.run, its signal handler and *)
(* ElectricityBillBot.start / stop.                                         *)
(*   proc  idle      main() not entered                                     *)
(*         starting  inside bot.start(), at scheduler_manager.start         *)
(*         serving   in the loop `while bot.running: await asyncio.sleep(1)`*)
(*         exited    main() returned and asyncio.run closed the loop        *)

\* the event loop is alive
Alive == proc \in {"starting", "serving"}

\* the crawl tasks the event loop runs for the scheduler: the cron job's
\* future of the AsyncIOExecutor and the task of asyncio.create_task
LoopTasks == {"cron", "startup"}

\* a task receives CancelledError at the await it is suspended in. The
\* except clauses of CrawlerService.run_crawl_task and of
\* TaskScheduler.run_crawl_task name Exception, which CancelledError is not:
\* the task unwinds through `async with` (NTUTCrawler.__aexit__ closes the
\* page) and the finally clause, and ends without a result and without
\* reaching insert_crawler_log or the notification that were still ahead
CancelTasks(tasks) ==
    /\ pc' = [a \in Attempts |-> IF a \in tasks THEN "cancelled" ELSE pc[a]]
    /\ page' = IF \E a \in tasks :
                    hist[a].start = "ok" /\ pc[a] \in {"shot", "login", "extract",
                                                        "persist", "finish"}
               THEN [page EXCEPT !["sched"] = ClosedPage(@)]
               ELSE page
    /\ result' = [a \in Attempts |-> IF a \in tasks THEN NoResult ELSE result[a]]
    /\ cancelled' = cancelled \cup tasks

\* the tasks of the scheduler that are not finished
Pending == { a \in LoopTasks : pc[a] \notin {"idle", "done", "cancelled"} }

\* main() enters bot.start(), which reaches
\* `await self.scheduler_manager.start(config)` (main.py 48):
\* SchedulerManager.start takes no argument besides self, so the call with
\* config raises TypeError; bot.start logs and re-raises it, main() logs it,
\* its finally clause finds bot.running False and main() returns
BotStart ==
    /\ proc = "idle"
    /\ proc' = IF start_args = "config" THEN "exited" ELSE "starting"
    /\ UNCHANGED <<cfg, site, now, pc, run, crawlVars, schedVars, routerVars,
                   summaryVars, dailyVars, levelVars, closeVars, startVars, storeVars, fireVars, bot_running, start_args,
                   stop_task, cancelled>>

\* scheduler_manager.start returned: self.running = True, and main() enters
\* its loop; or it raised, main() logs it and returns
BotStarted ==
    /\ proc = "starting"
    /\ boot \in {"done", "failed"}
    /\ bot_running' = (boot = "done")
    /\ proc' = IF boot = "done" THEN "serving" ELSE "exited"
    /\ UNCHANGED <<cfg, site, now, pc, run, crawlVars, schedVars, routerVars,
                   summaryVars, dailyVars, levelVars, closeVars, startVars, storeVars, fireVars, start_args, stop_task,
                   cancelled>>

\* SIGINT or SIGTERM: signal_handler does asyncio.create_task(bot.stop())
Signal ==
    /\ Alive
    /\ ~stop_task
    /\ stop_task' = TRUE
    /\ UNCHANGED <<cfg, site, now, pc, run, crawlVars, schedVars, routerVars,
                   summaryVars, dailyVars, levelVars, closeVars, startVars, storeVars, fireVars, proc, bot_running,
                   start_args, cancelled>>

\* the task of bot.stop() runs, after the tasks that were ready before it:
\* nothing when bot.running is False; otherwise SchedulerManager.stop, that
\* is TaskScheduler.stop: self.scheduler.shutdown(), whose
\* AsyncIOExecutor.shutdown cancels the futures of the jobs that are
\* running, is_running = False; then self.running = False
BotStop ==
    /\ Alive
    /\ stop_task
    /\ pc["startup"] # "created"
    /\ stop_task' = FALSE
    /\ IF bot_running
       THEN /\ bot_running' = FALSE
            /\ IF manager_scheduler = "created" /\ is_running
               THEN /\ is_running' = FALSE
                    /\ CancelTasks(Pending \cap {"cron"})
               ELSE UNCHANGED <<is_running, pc, page, result, cancelled>>
       ELSE UNCHANGED <<bot_running, is_running, pc, page, result, cancelled>>
    /\ UNCHANGED <<cfg, site, now, run, start_time, hist, electricity_records,
                   crawler_logs, log_calls, task_start, outcome, raised,
                   manager_scheduler, boot, deliveries, http, routerVars,
                   summaryVars, dailyVars, levelVars, closeVars, startVars, storeVars, fireVars, proc, start_args>>

\* the loop of main() finds bot.running False; the finally clause's
\* bot.stop() returns at once and main() returns: asyncio.run cancels the
\* tasks that remain and closes the loop
MainReturn ==
    /\ proc = "serving"
    /\ ~bot_running
    /\ proc' = "exited"
    /\ CancelTasks(Pending)
    /\ stop_task' = FALSE
    /\ UNCHANGED <<cfg, site, now, run, start_time, hist, electricity_records,
                   crawler_logs, log_calls, task_start, outcome, raised,
                   manager_scheduler, is_running, boot, deliveries, http,
                   routerVars, summaryVars, dailyVars, levelVars, closeVars, startVars, storeVars, fireVars, bot_running,
                   start_args>>

----------------------------------------------------------------------------
(* The browser resources of an NTUTCrawler: NTUTCrawler.start, close and    *)
(* `async with self.crawler` of CrawlerService.run_crawl_task.              *)

Resources == {"playwright", "browser", "page"}

\* the order in which start() opens them and the order in which close()
\* closes them
OpenOrder == <<"playwright", "browser", "page">>
CloseOrder == <<"page", "browser", "playwright">>

\* how start() can end: all right, or with a fault of async_playwright().start(),
\* of chromium.launch, of new_page, or of the viewport and header calls
CrawlerStartOutcomes == {"ok", "fail_playwright", "fail_launch", "fail_page", "fail_setup"}

\* how many of the resources start() has opened when it ends that way
OpenedBy(o) ==
    IF o = "fail_playwright" THEN 0
    ELSE IF o = "fail_launch" THEN 1
    ELSE IF o = "fail_page" THEN 2
    ELSE 3

\* the fields after start() got as far as outcome o: what it opened is open,
\* the other fields are what the run before left in them
AfterStart(c, o) ==
    [r \in Resources |->
        IF \E i \in 1..OpenedBy(o) : OpenOrder[i] = r THEN "open" ELSE c[r]]

\* the open resources start() loses the reference to when it assigns the
\* fields anew: what a failed close of the run before left open
Overwritten(c, o) ==
    Cardinality({ i \in 1..OpenedBy(o) : c[OpenOrder[i]] = "open" })

\* NTUTCrawler.close: page.close(), browser.close() and playwright.stop() in
\* one try, each called when its field is set; the call named by `fault`
\* raises, which ends the try: the except clause logs, and the calls after
\* it are not made
RECURSIVE close(_, _, _)
close(c, fault, i) ==
    IF i > Len(CloseOrder) THEN c
    ELSE LET r == CloseOrder[i]
         IN  IF c[r] = "none" THEN close(c, fault, i + 1)
             ELSE IF fault = r THEN c
             ELSE close([c EXCEPT ![r] = "closed"], fault, i + 1)

\* the close calls that can raise
CloseFaults == {"none"} \cup Resources

closeFrame ==
    <<cfg, site, now, pc, run, crawlVars, schedVars, routerVars, summaryVars,
      dailyVars, lifeVars, levelVars, startVars, storeVars, fireVars>>

\* run_crawl_task reaches `async with self.crawler`: __aenter__ is start().
\* When start() fails it awaits close() and re-raises; run_crawl_task
\* catches that, and returns after its finally clause
CrawlerEnter ==
    /\ crawler_pc = "idle"
    /\ crawler_runs < MaxAttempts
    /\ crawler_runs' = crawler_runs + 1
    /\ \E o \in CrawlerStartOutcomes, fault \in CloseFaults :
         /\ opened' = { OpenOrder[i] : i \in 1..OpenedBy(o) }
         /\ leaked' = leaked + Overwritten(crawler, o)
         /\ IF o = "ok"
            THEN /\ crawler' = AfterStart(crawler, o)
                 /\ crawler_pc' = "inside"
                 /\ crawl_path' = "none"
            ELSE /\ crawler' = close(AfterStart(crawler, o), fault, 1)
                 /\ crawler_pc' = "returned"
                 /\ crawl_path' = "start_fault"
    /\ UNCHANGED closeFrame

\* the ways the body of `async with` ends: the early return after a failed
\* login, falling through with status success or partial, or an exception
ExitPaths == {"login_failed", "success", "partial", "fault"}

\* the body of `async with` ends: __aexit__ awaits close(); then the except
\* clause if an exception is on its way, the finally clause and the return
CrawlerExit ==
    /\ crawler_pc = "inside"
    /\ \E fault \in CloseFaults : crawler' = close(crawler, fault, 1)
    /\ crawl_path' \in ExitPaths
    /\ crawler_pc' = "returned"
    /\ UNCHANGED <<opened, crawler_runs, leaked, closeFrame>>

\* the caller has the result; the crawler object stays for the next run
CrawlerIdle ==
    /\ crawler_pc = "returned"
    /\ crawler_pc' = "idle"
    /\ opened' = {}
    /\ crawl_path' = "none"
    /\ UNCHANGED <<crawler, crawler_runs, leaked, closeFrame>>

----------------------------------------------------------------------------
(* SchedulerManager() and SchedulerManager.start called by several          *)
(* coroutines of one event loop                                             *)

\* the coroutines that construct the manager and call start()
Callers == 1..3

\* a manager that makes a TaskScheduler on every start()
NeedsScheduler_always(scheduler) == TRUE

\* `if not self.scheduler` of SchedulerManager.start
NeedsScheduler(scheduler) == scheduler = "none"

startFrame ==
    <<cfg, site, now, pc, run, crawlVars, routerVars, summaryVars, dailyVars,
      lifeVars, levelVars, closeVars, storeVars, fireVars, crawler_logs,
      log_calls, task_start, outcome, raised, boot, deliveries, http>>

\* SchedulerManager(): __new__ makes the instance when _instance is None and
\* returns _instance; __init__ sets scheduler = None the first time only
SchedulerManagerNew ==
    /\ manager_instances' = IF manager_instances = 0 THEN 1 ELSE manager_instances
    /\ UNCHANGED <<caller, start_calls, schedulers_made, aps_running, aps_starts,
                   startup_notes, startup_tasks, manager_scheduler, is_running,
                   startFrame>>

\* SchedulerManager.start up to the first await: TaskScheduler() when the
\* manager holds none (a new TaskScheduler has its own AsyncIOScheduler and
\* is_running False), the constructor's fault leaving start(); then
\* TaskScheduler.start, which returns at once when is_running, and awaits
\* init_database otherwise
StartCall(c) ==
    /\ caller[c] = "idle"
    /\ manager_instances > 0
    /\ start_calls < MaxStarts
    /\ start_calls' = start_calls + 1
    /\ IF NeedsScheduler(manager_scheduler) /\ ~TaskSchedulerInit
       THEN /\ caller' = [caller EXCEPT ![c] = "raised"]
            /\ UNCHANGED <<manager_scheduler, schedulers_made, is_running,
                           aps_running>>
       ELSE IF NeedsScheduler(manager_scheduler)
       THEN /\ manager_scheduler' = "created"
            /\ schedulers_made' = schedulers_made + 1
            /\ is_running' = FALSE
            /\ aps_running' = FALSE
            /\ caller' = [caller EXCEPT ![c] = "init_db"]
       ELSE /\ caller' = [caller EXCEPT ![c] =
                              IF is_running THEN "returned" ELSE "init_db"]
            /\ UNCHANGED <<manager_scheduler, schedulers_made, is_running,
                           aps_running>>
    /\ UNCHANGED <<manager_instances, aps_starts, startup_notes, startup_tasks,
                   startFrame>>

\* init_database returns or raises; then self.scheduler.start(), which
\* raises SchedulerAlreadyRunningError when the AsyncIOScheduler is running,
\* and is_running = True. The except clause logs and re-raises.
StartScheduler(c) ==
    /\ caller[c] = "init_db"
    /\ \E ok \in BOOLEAN :
         IF ok /\ ~aps_running
         THEN /\ aps_running' = TRUE
              /\ aps_starts' = aps_starts + 1
              /\ is_running' = TRUE
              /\ caller' = [caller EXCEPT ![c] = "notify"]
         ELSE /\ caller' = [caller EXCEPT ![c] = "raised"]
              /\ UNCHANGED <<aps_running, aps_starts, is_running>>
    /\ UNCHANGED <<start_calls, manager_instances, schedulers_made,
                   startup_notes, startup_tasks, manager_scheduler, startFrame>>

\* send_startup_notification returns; the startup crawl task is created
\* when settings.run_on_startup
StartNotify(c) ==
    /\ caller[c] = "notify"
    /\ startup_notes' = startup_notes + 1
    /\ startup_tasks' = IF cfg.run_on_startup THEN startup_tasks + 1
                        ELSE startup_tasks
    /\ caller' = [caller EXCEPT ![c] = "returned"]
    /\ UNCHANGED <<start_calls, manager_instances, schedulers_made, aps_running,
                   aps_starts, manager_scheduler, is_running, startFrame>>

\* the caller goes on after start() returned or raised
CallerResume(c) ==
    /\ caller[c] \in {"returned", "raised"}
    /\ caller' = [caller EXCEPT ![c] = "idle"]
    /\ UNCHANGED <<start_calls, manager_instances, schedulers_made, aps_running,
                   aps_starts, startup_notes, startup_tasks, manager_scheduler,
                   is_running, startFrame>>

----------------------------------------------------------------------------
(* NotificationLevel.from_string called on a string *)

\* str.upper() of one character of a key
upper_char(c) ==
    IF \E i \in 1..Len(LOWERCASE) : LOWERCASE[i] = c
    THEN UPPERCASE[CHOOSE i \in 1..Len(LOWERCASE) : LOWERCASE[i] = c]
    ELSE c

\* every way to write a key in upper and lower case
RECURSIVE Spellings(_)
Spellings(key) ==
    IF key = <<>> THEN {<<>>}
    ELSE { <<c>> \o rest : c \in {key[1], upper_char(key[1])},
                           rest \in Spellings(Tail(key)) }

\* strings that are no level name: empty, unknown, a prefix, a name with a
\* blank or a digit around it, a plural
OtherStrings ==
    { <<>>,
      <<"u", "n", "k", "n", "o", "w", "n">>,
      <<"w", "a", "r", "n">>,
      <<"W", "A", "R", "N">>,
      <<" ", "i", "n", "f", "o">>,
      <<"e", "r", "r", "o", "r", " ">>,
      <<"E", "R", "R", "O", "R", "S">>,
      <<"d", "e", "b", "u", "g", "1">>,
      <<"4", "0">>,
      <<"c", "r", "i", "t">> }

\* the strings from_string is called on
LevelStrings ==
    Spellings(KEY_DEBUG) \cup Spellings(KEY_INFO) \cup Spellings(KEY_ERROR)
        \cup Spellings(KEY_SUCCESS) \cup Spellings(KEY_WARNING)
        \cup Spellings(KEY_CRITICAL) \cup OtherStrings

levelFrame ==
    <<cfg, site, now, pc, run, crawlVars, schedVars, routerVars, summaryVars,
      dailyVars, lifeVars, closeVars, startVars, storeVars, fireVars>>

\* NotificationLevel.from_string(level_str) returns
FromString ==
    /\ from_string_ret = <<>>
    /\ from_string_ret' = <<from_string_chars(from_string_arg)>>
    /\ UNCHANGED <<from_string_arg, levelFrame>>

\* the next call, on another string
FromStringAgain ==
    /\ from_string_ret # <<>>
    /\ from_string_arg' \in LevelStrings
    /\ from_string_ret' = <<>>
    /\ UNCHANGED levelFrame

----------------------------------------------------------------------------
(* Specifications *)

InitState ==
    /\ now = 0
    /\ pc = [a \in Attempts |-> "idle"]
    /\ run = [a \in Attempts |-> 0]
    /\ start_time = [a \in Attempts |-> 0]
    /\ result = [a \in Attempts |-> NoResult]
    /\ hist = [a \in Attempts |-> NoHist]
    /\ page = [s \in Services |-> "none"]
    /\ electricity_records = <<>>
    /\ crawler_logs = {}
    /\ log_calls = [a \in Attempts |-> 0]
    /\ task_start = [a \in Attempts |-> 0]
    /\ outcome = [a \in Attempts |-> NoResult]
    /\ raised = [a \in Attempts |-> NONE]
    /\ manager_scheduler = "none"
    /\ is_running = FALSE
    /\ boot = "idle"
    /\ deliveries = {}
    /\ http = 0

\* the manager of manager.py before any send_* call
RouterIdle ==
    /\ event = NoEvent
    /\ mpc = "idle"
    /\ sends = <<>>
    /\ chart_sends = <<>>

\* no query of the day's readings made
SummaryIdle ==
    /\ readings = <<>>
    /\ query_ok = TRUE
    /\ daily_summary = <<>>
    /\ earlier = <<>>

\* no daily summary task is running
DailyIdle ==
    /\ daily_pc = "idle"
    /\ daily_kind = "none"
    /\ chart_path = <<>>
    /\ daily_notes = <<>>
    /\ daily_result = "none"

\* main() has not been entered
LifeIdle ==
    /\ proc = "idle"
    /\ bot_running = FALSE
    /\ start_args = "none"
    /\ stop_task = FALSE
    /\ cancelled = {}

\* SchedulerManager._instance is None and nobody has called start()
StartIdle ==
    /\ caller = [c \in 1..3 |-> "idle"]
    /\ start_calls = 0
    /\ manager_instances = 0
    /\ schedulers_made = 0
    /\ aps_running = FALSE
    /\ aps_starts = 0
    /\ startup_notes = 0
    /\ startup_tasks = 0

\* an NTUTCrawler as __init__ leaves it: browser and page None, no
\* playwright attribute
CloseIdle ==
    /\ crawler = [playwright |-> "none", browser |-> "none", page |-> "none"]
    /\ crawler_pc = "idle"
    /\ opened = {}
    /\ crawler_runs = 0
    /\ crawl_path = "none"
    /\ leaked = 0

\* no call of from_string has been made
LevelIdle ==
    /\ from_string_arg = <<>>
    /\ from_string_ret = <<>>

----------------------------------------------------------------------------
(* The store: the operations of class Database of                          *)
(* src/src/database/database.py, called one at a time on the two tables.   *)
(* Rows of electricity_records are [balance, created_at] here; the list     *)
(* a query returns is a sequence, None is <<>> and a float b is <<b>>.     *)

\* balances the rows inserted in the store model hold: 460 and 500
StoreBalances == { 460 * Scale, 500 * Scale }

\* ORDER BY created_at DESC
RECURSIVE order_by_created_at_desc(_)
order_by_created_at_desc(rows) ==
    IF rows = <<>> THEN <<>>
    ELSE LET i == CHOOSE i \in 1..Len(rows) :
                    \A j \in 1..Len(rows) :
                        rows[j].created_at <= rows[i].created_at
         IN  <<rows[i]>> \o
             order_by_created_at_desc(
                 SubSeq(rows, 1, i - 1) \o SubSeq(rows, i + 1, Len(rows)))

\* LIMIT n
limit(rows, n) == SubSeq(rows, 1, IF n < Len(rows) THEN n ELSE Len(rows))

\* Database.get_latest_records: the newest rows first, at most `limit` of
\* them; [] when the query raises
get_latest_records(rows, n, ok) ==
    IF ok THEN limit(order_by_created_at_desc(rows), n) ELSE <<>>

\* Database.get_records_by_date_range: the rows with created_at BETWEEN the
\* two ends, newest first; [] when the query raises
get_records_by_date_range(rows, start_date, end_date, ok) ==
    IF ok
    THEN order_by_created_at_desc(
             SelectSeq(rows, LAMBDA r : /\ start_date <= r.created_at
                                        /\ r.created_at <= end_date))
    ELSE <<>>

\* Database.get_latest_balance: the balance of the newest row, None when
\* there is no row or the query raises
get_latest_balance(rows, ok) ==
    IF ok /\ rows # <<>>
    THEN <<order_by_created_at_desc(rows)[1].balance>>
    ELSE <<>>

storeFrame ==
    <<cfg, site, now, pc, run, start_time, result, hist, page, log_calls,
      task_start, outcome, raised, manager_scheduler, is_running, boot,
      deliveries, http, routerVars, summaryVars, dailyVars, lifeVars,
      levelVars, closeVars, startVars, fireVars>>

\* Database.init_database: CREATE TABLE IF NOT EXISTS and CREATE INDEX IF NOT
\* EXISTS leave the rows of existing tables as they are
InitDatabase ==
    /\ fetched' = [op |-> "init_database", value |-> <<>>]
    /\ UNCHANGED <<electricity_records, crawler_logs>>
    /\ UNCHANGED storeFrame

\* a caller awaits insert_electricity_record(record); created_at of the
\* record is the time it was made, later than that of the rows before it
InsertElectricityRecord ==
    /\ Len(electricity_records) < MaxReadings
    /\ \E b \in StoreBalances, success \in BOOLEAN :
         /\ electricity_records' =
              insert_electricity_record(
                  electricity_records,
                  Reading(Len(electricity_records) + 1, b), success)
         /\ fetched' = [op |-> "insert_electricity_record",
                        value |-> <<success>>]
    /\ UNCHANGED crawler_logs
    /\ UNCHANGED storeFrame

\* a caller awaits insert_crawler_log(log)
InsertCrawlerLog ==
    /\ Cardinality(crawler_logs) < MaxAttempts
    /\ \E status \in {"success", "error"}, stored \in BOOLEAN :
         /\ crawler_logs' =
              insert_crawler_log(
                  [by |-> "store", run |-> 0,
                   ord |-> Cardinality(crawler_logs) + 1, status |-> status,
                   records_count |-> IF status = "success" THEN 1 ELSE 0,
                   error_message |-> IF status = "success" THEN NONE
                                     ELSE MSG_LOGIN_FAILED,
                   duration_seconds |-> 0],
                  stored)
         /\ fetched' = [op |-> "insert_crawler_log", value |-> <<stored>>]
    /\ UNCHANGED electricity_records
    /\ UNCHANGED storeFrame

\* a caller awaits get_latest_records(limit)
GetLatestRecords ==
    /\ \E n \in 1..2, ok \in BOOLEAN :
         fetched' = [op |-> "get_latest_records",
                     value |-> get_latest_records(electricity_records, n, ok)]
    /\ UNCHANGED <<electricity_records, crawler_logs>>
    /\ UNCHANGED storeFrame

\* a caller awaits get_records_by_date_range(start_date, end_date)
GetRecordsByDateRange ==
    /\ \E start_date \in {HMS(0, 0, 0), HMS(2, 0, 0)},
          end_date \in {HMS(2, 0, 30), HMS(23, 59, 59)}, ok \in BOOLEAN :
         fetched' = [op |-> "get_records_by_date_range",
                     value |-> get_records_by_date_range(
                                   electricity_records, start_date, end_date,
                                   ok)]
    /\ UNCHANGED <<electricity_records, crawler_logs>>
    /\ UNCHANGED storeFrame

\* a caller awaits get_latest_balance()
GetLatestBalance ==
    /\ \E ok \in BOOLEAN :
         fetched' = [op |-> "get_latest_balance",
                     value |-> get_latest_balance(electricity_records, ok)]
    /\ UNCHANGED <<electricity_records, crawler_logs>>
    /\ UNCHANGED storeFrame

\* a caller awaits get_daily_usage_summary(target_date), every row of the
\* table being of that date
DailyUsageSummary ==
    /\ \E ok \in BOOLEAN :
         fetched' = [op |-> "get_daily_usage_summary",
                     value |-> get_daily_usage_summary(
                                   get_yesterday_records(electricity_records,
                                                         ok))]
    /\ UNCHANGED <<electricity_records, crawler_logs>>
    /\ UNCHANGED storeFrame

\* no Database call has been made by a caller of the store model
StoreIdle == fetched = [op |-> "none", value |-> <<>>]

\* no cron trigger has come due
FireIdle == fired = [idle |-> 0, busy |-> 0]

\* the scheduler process: SchedulerManager, TaskScheduler and its crawls
Init ==
    /\ \E w \in SchedWorlds : cfg = w[1] /\ site = w[2]
    /\ InitState
    /\ notifiers = <<>>
    /\ RouterIdle
    /\ SummaryIdle
    /\ DailyIdle
    /\ LifeIdle
    /\ LevelIdle
    /\ CloseIdle
    /\ StartIdle
    /\ StoreIdle
    /\ FireIdle

Next ==
    \/ ManagerStart
    \/ BootInitDatabase
    \/ BootNotify
    \/ StartupTask
    \/ ManagerStop
    \/ CronFire
    \/ ManualCrawl
    \/ \E a \in SchedAttempts : CrawlStep(a)
    \/ \E a \in SchedAttempts : ProcessLog(a)
    \/ \E a \in SchedAttempts : ProcessNotify(a)
    \/ \E a \in SchedAttempts : ErrorLog(a)
    \/ \E a \in SchedAttempts : ErrorNotify(a)

Spec == Init /\ [][Next]_vars

\* the cron job alone: an installation without the startup crawl whose
\* triggers are counted as they come due
CronCfgs ==
    { [DefaultCfg EXCEPT !.run_on_startup = FALSE],
      [DefaultCfg EXCEPT !.run_on_startup = FALSE, !.tz_valid = FALSE] }

InitCron ==
    /\ cfg \in CronCfgs
    /\ site = LowBalanceDoc
    /\ InitState
    /\ notifiers = <<>>
    /\ RouterIdle
    /\ SummaryIdle
    /\ DailyIdle
    /\ LifeIdle
    /\ LevelIdle
    /\ CloseIdle
    /\ StartIdle
    /\ StoreIdle
    /\ FireIdle

NextCron ==
    \/ ManagerStart
    \/ BootInitDatabase
    \/ BootNotify
    \/ ManagerStop
    \/ CronTrigger
    \/ CrawlStep("cron")
    \/ ProcessLog("cron")
    \/ ProcessNotify("cron")
    \/ ErrorLog("cron")
    \/ ErrorNotify("cron")

SpecCron == InitCron /\ [][NextCron]_vars

\* the Database object alone, its operations called in any order
InitStore ==
    /\ cfg = DefaultCfg
    /\ site = LowBalanceDoc
    /\ InitState
    /\ notifiers = <<>>
    /\ RouterIdle
    /\ SummaryIdle
    /\ DailyIdle
    /\ LifeIdle
    /\ LevelIdle
    /\ CloseIdle
    /\ StartIdle
    /\ StoreIdle
    /\ FireIdle

NextStore ==
    \/ InitDatabase
    \/ InsertElectricityRecord
    \/ InsertCrawlerLog
    \/ GetLatestRecords
    \/ GetRecordsByDateRange
    \/ GetLatestBalance
    \/ DailyUsageSummary

SpecStore == InitStore /\ [][NextStore]_vars

\* one CrawlerService on its own, and the balance API
InitCrawl ==
    /\ cfg \in CrawlCfgs
    /\ site \in Docs
    /\ InitState
    /\ notifiers = <<>>
    /\ RouterIdle
    /\ SummaryIdle
    /\ DailyIdle
    /\ LifeIdle
    /\ LevelIdle
    /\ CloseIdle
    /\ StartIdle
    /\ StoreIdle
    /\ FireIdle

NextCrawl ==
    \/ DirectCall
    \/ DirectReturn
    \/ ApiRequest
    \/ ApiRespond
    \/ \E a \in {"direct", "api"} : CrawlStep(a)

SpecCrawl == InitCrawl /\ [][NextCrawl]_vars

\* a NotificationManager of manager.py on its own, its channels configured
InitRouter ==
    /\ cfg \in RouterCfgs
    /\ site = LowBalanceDoc
    /\ InitState
    /\ notifiers \in NotifierLists
    /\ RouterIdle
    /\ SummaryIdle
    /\ DailyIdle
    /\ LifeIdle
    /\ LevelIdle
    /\ CloseIdle
    /\ StartIdle
    /\ StoreIdle
    /\ FireIdle

NextRouter ==
    \/ send_crawl_error_notification
    \/ send_partial_success_notification
    \/ send_startup_notification
    \/ send_daily_summary_notification
    \/ send_balance_notification
    \/ send_to_all_raw
    \/ SendToAllStep
    \/ SendChartStep
    \/ ManagerReturn

SpecRouter == InitRouter /\ [][NextRouter]_vars

\* Database.get_daily_usage_summary on a table holding the rows of one day
InitSummary ==
    /\ cfg = DefaultCfg
    /\ site = LowBalanceDoc
    /\ InitState
    /\ notifiers = <<>>
    /\ RouterIdle
    /\ readings \in ReadingSeqs
    /\ query_ok = TRUE
    /\ daily_summary = <<>>
    /\ earlier = <<>>
    /\ DailyIdle
    /\ LifeIdle
    /\ LevelIdle
    /\ CloseIdle
    /\ StartIdle
    /\ StoreIdle
    /\ FireIdle

NextSummary ==
    \/ GetDailyUsageSummary
    \/ DropSummary

SpecSummary == InitSummary /\ [][NextSummary]_vars

\* the daily summary task of a constructed TaskScheduler, on a table holding
\* the rows of the target date
InitDaily ==
    /\ cfg = DefaultCfg
    /\ site = LowBalanceDoc
    /\ InitState
    /\ notifiers = <<>>
    /\ RouterIdle
    /\ readings \in ReadingSeqs
    /\ query_ok = TRUE
    /\ daily_summary = <<>>
    /\ earlier = <<>>
    /\ DailyIdle
    /\ LifeIdle
    /\ LevelIdle
    /\ CloseIdle
    /\ StartIdle
    /\ StoreIdle
    /\ FireIdle

NextDaily ==
    \/ DailyTaskStart
    \/ DailyChart
    \/ DailySend
    \/ DailyTaskLeave

SpecDaily == InitDaily /\ [][NextDaily]_vars

\* constructions of SchedulerManager and calls of start() by three coroutines
InitStart ==
    /\ cfg \in {DefaultCfg, [DefaultCfg EXCEPT !.run_on_startup = FALSE]}
    /\ site = LowBalanceDoc
    /\ InitState
    /\ notifiers = <<>>
    /\ RouterIdle
    /\ SummaryIdle
    /\ DailyIdle
    /\ LifeIdle
    /\ LevelIdle
    /\ CloseIdle
    /\ StartIdle
    /\ StoreIdle
    /\ FireIdle

NextStart ==
    \/ SchedulerManagerNew
    \/ \E c \in Callers : StartCall(c)
    \/ \E c \in Callers : StartScheduler(c)
    \/ \E c \in Callers : StartNotify(c)
    \/ \E c \in Callers : CallerResume(c)

SpecStart == InitStart /\ [][NextStart]_vars

\* one NTUTCrawler used for run after run
InitClose ==
    /\ cfg = DefaultCfg
    /\ site = LowBalanceDoc
    /\ InitState
    /\ notifiers = <<>>
    /\ RouterIdle
    /\ SummaryIdle
    /\ DailyIdle
    /\ LifeIdle
    /\ LevelIdle
    /\ CloseIdle
    /\ StartIdle
    /\ StoreIdle
    /\ FireIdle

NextClose ==
    \/ CrawlerEnter
    \/ CrawlerExit
    \/ CrawlerIdle

SpecClose == InitClose /\ [][NextClose]_vars

\* the process of main.py, started with the call as main.py writes it
\* (start(config)) or with the call SchedulerManager.start accepts (start())
InitLife ==
    /\ cfg \in {DefaultCfg, [DefaultCfg EXCEPT !.tz_valid = FALSE]}
    /\ site = LowBalanceDoc
    /\ InitState
    /\ notifiers = <<>>
    /\ RouterIdle
    /\ SummaryIdle
    /\ DailyIdle
    /\ LevelIdle
    /\ CloseIdle
    /\ StartIdle
    /\ StoreIdle
    /\ FireIdle
    /\ proc = "idle"
    /\ bot_running = FALSE
    /\ start_args \in {"config", "none"}
    /\ stop_task = FALSE
    /\ cancelled = {}

NextLife ==
    \/ BotStart
    \/ BotStarted
    \/ Signal
    \/ BotStop
    \/ MainReturn
    \/ proc = "starting" /\ ManagerStart
    \/ Alive /\ BootInitDatabase
    \/ Alive /\ BootNotify
    \/ Alive /\ StartupTask
    \/ Alive /\ CronFire
    \/ Alive /\ \E a \in LoopTasks : CrawlStep(a)
    \/ Alive /\ \E a \in LoopTasks : ProcessLog(a)
    \/ Alive /\ \E a \in LoopTasks : ProcessNotify(a)
    \/ Alive /\ \E a \in LoopTasks : ErrorLog(a)
    \/ Alive /\ \E a \in LoopTasks : ErrorNotify(a)

SpecLife == InitLife /\ [][NextLife]_vars

\* from_string called on one string after another
InitLevels ==
    /\ cfg = DefaultCfg
    /\ site = LowBalanceDoc
    /\ InitState
    /\ notifiers = <<>>
    /\ RouterIdle
    /\ SummaryIdle
    /\ DailyIdle
    /\ LifeIdle
    /\ from_string_arg \in LevelStrings
    /\ from_string_ret = <<>>
    /\ CloseIdle
    /\ StartIdle
    /\ StoreIdle
    /\ FireIdle

NextLevels ==
    \/ FromString
    \/ FromStringAgain

SpecLevels == InitLevels /\ [][NextLevels]_vars

----------------------------------------------------------------------------
(* Properties of CrawlerService.run_crawl_task, stated on the result an     *)
(* attempt holds when run_crawl_task has returned (pc = "returned")         *)

Returned(a) == pc[a] = "returned"

\* C1: run_crawl_task ends in status success if and only if login succeeded,
\* the parsed balance is greater than zero, a store is configured and
\* insert_electricity_record reported success.
C1_SuccessIff ==
    \A a \in Attempts :
        Returned(a) =>
            (result[a].status = "success"
             <=> /\ hist[a].login = "ok"
                 /\ result[a].balance_number > 0
                 /\ HasDatabase(a)
                 /\ hist[a].insert = "ok")

\* a crawl has returned success after a successful login and insert
C1_Witness ==
    \E a \in Attempts :
        /\ Returned(a)
        /\ result[a].status = "success"
        /\ hist[a].login = "ok"
        /\ hist[a].insert = "ok"
        /\ result[a].balance_number > 0

\* C2: after a successful login, the status is partial when the balance is
\* greater than zero but the insert reports failure, when the balance is not
\* greater than zero, and when no store is configured; it is then neither
\* success nor error.
C2_PartialCases ==
    \A a \in Attempts :
        ( /\ Returned(a)
          /\ hist[a].login = "ok"
          /\ \/ result[a].balance_number > 0 /\ hist[a].insert = "fail"
             \/ result[a].balance_number <= 0
             \/ ~HasDatabase(a) )
        => result[a].status = "partial"

\* a crawl has returned after a successful login and a failed insert of a
\* positive balance
C2_Witness ==
    \E a \in Attempts :
        /\ Returned(a)
        /\ hist[a].login = "ok"
        /\ result[a].balance_number > 0
        /\ hist[a].insert = "fail"

\* the rows of electricity_records stored by the current run of a
RecordsOf(a) ==
    { i \in 1..Len(electricity_records) :
        electricity_records[i].by = a /\ electricity_records[i].run = run[a] }

\* C3: when login returns False (a timeout included) the crawl ends in status
\* error with error_message "login failed" and records_count 0, no record is
\* returned or stored, and get_balance is not called.
C3_LoginFailure ==
    \A a \in Attempts :
        (Returned(a) /\ hist[a].login \in {"failed", "timeout", "fault"})
        => /\ result[a].status = "error"
           /\ result[a].error_message = MSG_LOGIN_FAILED
           /\ result[a].records_count = 0
           /\ result[a].records = <<>>
           /\ RecordsOf(a) = {}
           /\ hist[a].extract = "none"
           /\ hist[a].insert = "none"

\* a crawl has returned after a login that timed out
C3_Witness ==
    \E a \in Attempts : Returned(a) /\ hist[a].login = "timeout"

\* a step of the attempt met an exception
Faulted(a) ==
    \/ hist[a].start \in {"fail_launch", "fail_setup"}
    \/ hist[a].login = "fault"
    \/ hist[a].extract = "fault"
    \/ hist[a].insert = "fail"

\* str(e) of the first exception the attempt met
FaultOf(a) ==
    IF hist[a].start \in {"fail_launch", "fail_setup"} THEN StartFault(hist[a].start)
    ELSE IF hist[a].login = "fault" THEN FAULT_LOGIN
    ELSE IF hist[a].extract = "fault" THEN FAULT_EXTRACT
    ELSE FAULT_INSERT

\* C4 as stated: an exception in any step (browser start, login, extraction,
\* insert) gives status error with the exception's message in error_message,
\* and a screenshot is attempted.
C4_AnyFaultIsError ==
    \A a \in Attempts :
        (Returned(a) /\ Faulted(a))
        => /\ result[a].status = "error"
           /\ result[a].error_message = FaultOf(a)
           /\ hist[a].shot # "none"

\* C4, amended: only an exception of the browser start escapes its step; it
\* gives status error with the exception's message in error_message, the
\* screenshot is attempted exactly when a page object exists, and a failed
\* screenshot leaves the message in place. An exception inside login gives
\* error with "login failed"; one inside get_balance never gives error; one
\* inside the insert gives partial with the insert-failed message.
C4_FaultHandling ==
    \A a \in Attempts :
        Returned(a) =>
            /\ hist[a].start \in {"fail_launch", "fail_setup"}
               => /\ result[a].status = "error"
                  /\ result[a].error_message = StartFault(hist[a].start)
                  /\ result[a].records_count = 0
                  /\ (hist[a].shot # "none") <=> (page[Service(a)] # "none")
            /\ hist[a].start = "ok" => hist[a].shot = "none"
            /\ hist[a].login = "fault"
               => /\ result[a].status = "error"
                  /\ result[a].error_message = MSG_LOGIN_FAILED
            /\ hist[a].extract = "fault" => result[a].status # "error"
            /\ hist[a].insert = "fail"
               => /\ result[a].status = "partial"
                  /\ result[a].error_message = MSG_INSERT_FAILED

\* a crawl has returned after a browser start that failed once the page
\* existed, and the screenshot failed too
C4_Witness ==
    \E a \in Attempts :
        /\ Returned(a)
        /\ hist[a].start = "fail_setup"
        /\ hist[a].shot = "fail"
        /\ result[a].error_message = FAULT_SETUP

\* C8: the result has records_count 0 or 1, equal to the number of records;
\* records_count is 1 and error_message is None exactly when the status is
\* success; when the status is partial or error there is no record and
\* error_message is set.
C8_OutputContract ==
    \A a \in Attempts :
        Returned(a) =>
            /\ result[a].records_count \in {0, 1}
            /\ result[a].records_count = Len(result[a].records)
            /\ (result[a].records_count = 1 /\ result[a].error_message = NONE)
               <=> result[a].status = "success"
            /\ result[a].status \in {"partial", "error"}
               => /\ result[a].records = <<>>
                  /\ result[a].error_message # NONE

\* a crawl without a store has returned partial
C8_Witness ==
    \E a \in Attempts :
        /\ Returned(a)
        /\ ~HasDatabase(a)
        /\ result[a].status = "partial"
        /\ result[a].error_message = MSG_NO_BALANCE_OR_DB

----------------------------------------------------------------------------
(* Properties of the scheduler *)

\* the scheduler method of a has run a crawl and has returned
Completed(a) == pc[a] = "done" /\ outcome[a] # NotInitializedResult

\* C5: every crawl attempt of the scheduler makes exactly one crawler log
\* entry (one call of insert_crawler_log), whatever its outcome.
C5_ExactlyOneLog ==
    \A a \in SchedAttempts : Completed(a) => log_calls[a] = 1

\* the rows of crawler_logs written by the current run of a
LogsOf(a) == { row \in crawler_logs : row.by = a /\ row.run = run[a] }

\* C6: a crawler log row written for an attempt has the status,
\* records_count, error_message and duration_seconds of the result
\* run_crawl_task returned for it, and its status is success, partial or error.
C6_LogMatchesOutcome ==
    \A a \in SchedAttempts :
        pc[a] \in {"notify", "errlog", "errnotify"} =>
            \A row \in LogsOf(a) :
                /\ row.status = result[a].status
                /\ row.records_count = result[a].records_count
                /\ row.error_message = result[a].error_message
                /\ row.duration_seconds = result[a].duration_seconds
                /\ row.status \in {"success", "partial", "error"}

\* C7: at most one crawl attempt of the scheduler (cron job, startup task,
\* manual crawl) is between its start and its end.
C7_AtMostOneCrawl ==
    Cardinality({a \in SchedAttempts : InFlight(a)}) <= 1

\* C9: every result handed to a caller has the key duration_seconds, with a
\* value that is not negative.
C9_DurationPresent ==
    \A a \in Attempts :
        outcome[a] # NoResult
        => /\ "duration_seconds" \in outcome[a].keys
           /\ outcome[a].duration_seconds >= 0

----------------------------------------------------------------------------
(* Properties of the notification router (manager.py, base.py), stated on  *)
(* the calls of send_notification made for the event being routed           *)

\* delivery attempts made to the i-th notifier for the event
AttemptsTo(i) ==
    Cardinality({ j \in 1..Len(sends) :
                    sends[j].channel = i /\ Attempted(sends[j]) })

\* _send_to_all was called for the event and has returned
TextRouted == event.routed /\ mpc \in {"charting", "done"}

\* C11: once an event has gone through _send_to_all, every configured
\* channel has had exactly one delivery attempt when the event's level is at
\* least the channel's min_level and none otherwise; no channel ever has a
\* second attempt, whatever the first one's result. A channel with floor
\* WARNING is attempted for WARNING, ERROR and CRITICAL only, one with floor
\* ERROR for ERROR and CRITICAL only.
C11_SeverityFilter ==
    /\ \A i \in 1..Len(notifiers) : AttemptsTo(i) <= 1
    /\ TextRouted =>
          \A i \in 1..Len(notifiers) :
              /\ AttemptsTo(i) =
                    IF event.level >= notifiers[i].min_level THEN 1 ELSE 0
              /\ notifiers[i].min_level = WARNING =>
                    (AttemptsTo(i) = 1 <=>
                         event.level \in {WARNING, ERROR, CRITICAL})
              /\ notifiers[i].min_level = ERROR =>
                    (AttemptsTo(i) = 1 <=> event.level \in {ERROR, CRITICAL})

\* a WARNING event has been routed to a channel with floor WARNING, whose
\* one attempt failed, and to a channel with floor ERROR, which had none
C11_Witness ==
    /\ TextRouted
    /\ event.level = WARNING
    /\ \E i, k \in 1..Len(notifiers) :
          /\ notifiers[i].min_level = WARNING
          /\ \E j \in 1..Len(sends) :
                sends[j].channel = i /\ sends[j].result = "client_error"
          /\ notifiers[k].min_level = ERROR
          /\ AttemptsTo(k) = 0

\* a delivery to some channel failed: an exception or a status other than
\* 200 and 204
SomeFailure ==
    \E j \in 1..Len(sends) :
        sends[j].result \in {"payload_error", "client_error", "rejected"}

\* C12: routing an event never raises to the caller of the send_* method,
\* and once the event has gone through _send_to_all with a failed delivery
\* on some channel, every channel whose floor admits the event has still had
\* its attempt, wherever it stands in the list.
C12_NeverRaises ==
    /\ mpc # "raised"
    /\ (TextRouted /\ SomeFailure) =>
          \A i \in 1..Len(notifiers) :
              event.level >= notifiers[i].min_level => AttemptsTo(i) = 1

\* send_balance_notification found the current time inside the window
Eligible == event.gate \in {"send", "threshold"}

\* C13: with a start and an end time that parse, a balance notification is
\* inside the notification window exactly when start <= end and
\* start <= now <= end, or start > end and (now >= start or now <= end),
\* both ends included; with start 23:00 and end 06:00 the times 23:30 and
\* 05:00 are inside and 12:00 is not.
C13_WindowRule ==
    (event.kind = "balance" /\ cfg.start_time_valid /\ cfg.end_time_valid
       /\ cfg.tz_valid) =>
        LET s == cfg.notification_start_time
            e == cfg.notification_end_time
            n == event.clock
        IN  /\ Eligible <=>
                  \/ s <= e /\ s <= n /\ n <= e
                  \/ s > e /\ (n >= s \/ n <= e)
            /\ (s = HM(23, 0) /\ e = HM(6, 0)) =>
                  /\ n \in {HM(23, 30), HM(5, 0)} => Eligible
                  /\ n = HM(12, 0) => ~Eligible

\* a balance notification at 06:00 sharp, the end of the window 23:00-06:00,
\* was found inside the window
C13_Witness ==
    /\ event.kind = "balance"
    /\ cfg.start_time_valid /\ cfg.end_time_valid /\ cfg.tz_valid
    /\ cfg.notification_start_time = HM(23, 0)
    /\ cfg.notification_end_time = HM(6, 0)
    /\ event.clock = HM(6, 0)
    /\ Eligible

\* the current time lies outside the configured notification window
OutsideWindow ==
    /\ cfg.start_time_valid /\ cfg.end_time_valid
    /\ ~within_window(cfg.notification_start_time, cfg.notification_end_time,
                      event.clock)

\* C14: the window and the threshold are consulted for balance notifications
\* only: an error, partial, startup or daily-summary notification reaches
\* _send_to_all at whatever time it is sent, no gate having been evaluated,
\* and once routed it has been attempted on exactly the channels whose floor
\* admits its level; a notification that was held back is a balance one.
C14_GatesBalanceOnly ==
    /\ event.kind \in {"error", "partial", "startup", "summary"} =>
          /\ event.routed
          /\ event.gate = "none"
          /\ TextRouted =>
                \A i \in 1..Len(notifiers) :
                    AttemptsTo(i) =
                        IF event.level >= notifiers[i].min_level THEN 1 ELSE 0
    /\ (event.kind # "none" /\ ~event.routed) => event.kind = "balance"

\* an error notification sent outside the window has been attempted on a
\* channel
C14_Witness ==
    /\ event.kind = "error"
    /\ OutsideWindow
    /\ TextRouted
    /\ \E i \in 1..Len(notifiers) : AttemptsTo(i) = 1

\* C15: a balance notification whose balance is at or above
\* settings.notification_balance_threshold never reaches _send_to_all, so no
\* channel is attempted; one strictly below it is routed whenever the window
\* check lets it through. With the threshold 100.0, 99.99 is routed inside
\* the window and 100.0 and every higher balance is held back.
C15_Threshold ==
    event.kind = "balance" =>
        /\ event.balance >= notification_balance_threshold * Scale =>
              ~event.routed /\ sends = <<>> /\ chart_sends = <<>>
        /\ (event.balance < notification_balance_threshold * Scale
               /\ event.gate \notin {"quiet", "raise"}) =>
              event.routed /\ event.gate = "send"
        /\ (notification_balance_threshold = 100 /\ Scale = 100) =>
              /\ (event.balance = 9999 /\ Eligible) => event.routed
              /\ event.balance >= 10000 => ~event.routed

\* inside the window, a balance of exactly the threshold was held back by
\* the threshold check
C15_Witness ==
    /\ event.kind = "balance"
    /\ event.balance = notification_balance_threshold * Scale
    /\ event.gate = "threshold"
    /\ mpc = "done"

\* the constructor TaskScheduler() raised: SchedulerManager.start failed
\* without a scheduler
ConstructorFailed == boot = "failed" /\ manager_scheduler = "none"

\* C16: with a notification_start_time or a notification_end_time that does
\* not parse (the settings being valid otherwise) the balance gate counts
\* every time as inside the window, and the scheduler is still constructed,
\* so that crawls and notifications go on.
C16_FailOpen ==
    ((~cfg.start_time_valid \/ ~cfg.end_time_valid)
       /\ cfg.sched_cfg_valid /\ cfg.telegram = "empty") =>
        /\ \A w \in BOOLEAN : is_within_notification_time(w) = "open"
        /\ \A t \in Clocks : mgr_is_within_notification_time(t) = "open"
        /\ ~ConstructorFailed

\* calls of send_chart_notification made on the i-th notifier for the event
ChartAttemptsTo(i) ==
    Cardinality({ j \in 1..Len(chart_sends) :
                    chart_sends[j].channel = i /\ chart_sends[j].result # "none" })

\* send_daily_summary_notification called _send_chart_to_all, which has
\* returned
ChartRouted == event.kind = "summary" /\ event.chart /\ mpc = "done"

\* C17: once a chart send has been triggered and has returned, every
\* Discord or Telegram channel has had exactly one chart attempt, whatever
\* its min_level, the time of day and the results of the chart attempts on
\* the other channels; no balance is read.
C17_ChartUngated ==
    /\ \A i \in 1..Len(notifiers) : ChartAttemptsTo(i) <= 1
    /\ ChartRouted =>
          \A i \in 1..Len(notifiers) :
              notifiers[i].kind \in {"discord", "telegram"} =>
                  ChartAttemptsTo(i) = 1

\* outside the window, the chart attempt on the first channel failed and a
\* later channel, whose floor kept the summary text out, had its chart attempt
C17_Witness ==
    /\ ChartRouted
    /\ OutsideWindow
    /\ Len(chart_sends) >= 2
    /\ chart_sends[1].result = "error"
    /\ \E i \in 2..Len(notifiers) :
          /\ notifiers[i].min_level > event.level
          /\ AttemptsTo(i) = 0
          /\ ChartAttemptsTo(i) = 1

----------------------------------------------------------------------------
(* Properties of Database.get_daily_usage_summary, stated on the summary a *)
(* call has returned and the records its query gave                         *)

\* the records get_daily_usage_summary worked on
Retrieved == get_yesterday_records(readings, query_ok)

\* the balances of the retrieved records, in order
RetrievedBalances == [k \in 1..Len(Retrieved) |-> Retrieved[k].balance]

\* the example of a day with a top-up: 500, 480, 520, 460
ExampleDay == <<500 * Scale, 480 * Scale, 520 * Scale, 460 * Scale>>

\* C18: a summary made from fewer than two readings has total_usage 0, no
\* start balance, no end balance and an empty hourly series.
C18_TooFewReadings ==
    (daily_summary # <<>> /\ Len(Retrieved) < 2) =>
        /\ daily_summary[1].total_usage = 0
        /\ daily_summary[1].start_balance = <<>>
        /\ daily_summary[1].end_balance = <<>>
        /\ daily_summary[1].hourly_usage = <<>>

\* a summary was made of a day with a single reading
C18_Witness ==
    /\ daily_summary # <<>>
    /\ query_ok
    /\ Len(readings) = 1

\* C19: a summary made from at least two readings has the balance of the
\* first reading as start_balance, that of the last as end_balance, and
\* total_usage = max(0, start_balance - end_balance), never negative; the
\* readings 500, 480, 520, 460 give 40.
C19_TotalUsage ==
    (daily_summary # <<>> /\ Len(Retrieved) >= 2) =>
        LET first == Retrieved[1].balance
            last == Retrieved[Len(Retrieved)].balance
        IN  /\ daily_summary[1].start_balance = <<first>>
            /\ daily_summary[1].end_balance = <<last>>
            /\ daily_summary[1].total_usage =
                  (IF first - last > 0 THEN first - last ELSE 0)
            /\ daily_summary[1].total_usage >= 0
            /\ RetrievedBalances = ExampleDay =>
                  daily_summary[1].total_usage = 40 * Scale

\* the summary of the day 500, 480, 520, 460 was made, with total_usage 40
C19_Witness ==
    /\ daily_summary # <<>>
    /\ RetrievedBalances = ExampleDay
    /\ daily_summary[1].total_usage = 40 * Scale

\* C20: a summary made from n >= 2 readings has an hourly series of exactly
\* n - 1 entries in the order of the readings; the entry for the i-th
\* reading (i = 1..n-1, counting from 0) has the usage
\* max(0, readings[i-1].balance - readings[i].balance), never negative, the
\* balance readings[i].balance and the hour and minute of that reading.
C20_HourlySeries ==
    (daily_summary # <<>> /\ Len(Retrieved) >= 2) =>
        LET h == daily_summary[1].hourly_usage
        IN  /\ Len(h) = Len(Retrieved) - 1
            /\ \A k \in 1..(Len(Retrieved) - 1) :
                  LET drop == Retrieved[k].balance - Retrieved[k + 1].balance
                  IN  /\ h[k].usage = (IF drop > 0 THEN drop ELSE 0)
                      /\ h[k].usage >= 0
                      /\ h[k].balance = Retrieved[k + 1].balance
                      /\ h[k].time = Retrieved[k + 1].created_at \div 60

\* the hourly series of the day 500, 480, 520, 460 was made: three entries,
\* the second one, a top-up, with usage 0
C20_Witness ==
    /\ daily_summary # <<>>
    /\ RetrievedBalances = ExampleDay
    /\ Len(daily_summary[1].hourly_usage) = 3
    /\ daily_summary[1].hourly_usage[2].usage = 0
    /\ daily_summary[1].hourly_usage[3].usage = 60 * Scale

\* the retrieved readings go down at every step
Decreasing ==
    \A k \in 1..(Len(Retrieved) - 1) :
        Retrieved[k].balance > Retrieved[k + 1].balance

\* the sum of the usages of an hourly series
RECURSIVE SumUsage(_)
SumUsage(h) ==
    IF h = <<>> THEN 0 ELSE h[1].usage + SumUsage(Tail(h))

\* C21: for a day of at least two readings that go down at every step,
\* total_usage is start_balance - end_balance, the hourly series has one
\* entry less than there are readings, each hourly usage is the step between
\* its two readings, and the hourly usages add up to total_usage.
C21_MonotonicDay ==
    (daily_summary # <<>> /\ Len(Retrieved) >= 2 /\ Decreasing) =>
        LET d == daily_summary[1]
        IN  /\ d.total_usage =
                  Retrieved[1].balance - Retrieved[Len(Retrieved)].balance
            /\ d.total_usage = d.start_balance[1] - d.end_balance[1]
            /\ Len(d.hourly_usage) = Len(Retrieved) - 1
            /\ \A k \in 1..(Len(Retrieved) - 1) :
                  d.hourly_usage[k].usage =
                      Retrieved[k].balance - Retrieved[k + 1].balance
            /\ SumUsage(d.hourly_usage) = d.total_usage

\* the summary of a day of four readings going down by 20 each was made
C21_Witness ==
    /\ daily_summary # <<>>
    /\ RetrievedBalances =
          <<520 * Scale, 500 * Scale, 480 * Scale, 460 * Scale>>
    /\ daily_summary[1].total_usage = 60 * Scale
    /\ Len(daily_summary[1].hourly_usage) = 3

----------------------------------------------------------------------------
(* Properties of the daily summary task *)

\* the notifications of one kind the task has had routed
NotesOf(what) ==
    { j \in 1..Len(daily_notes) : daily_notes[j].what = what }

\* C23: a run of the daily summary task, scheduled or manual, whose query
\* worked has, when it returns, had exactly one text notification routed, at
\* INFO, also for a day without usage and when no chart could be made; a
\* chart is sent only for a positive total_usage and an existing chart, and
\* after the text.
C23_OneInfoText ==
    (daily_pc = "done" /\ query_ok) =>
        /\ Cardinality(NotesOf("text")) = 1
        /\ \A j \in NotesOf("text") : daily_notes[j].level = INFO
        /\ \A j \in NotesOf("chart") :
              /\ daily_summary[1].total_usage > 0
              /\ chart_path # <<>>
              /\ \E i \in NotesOf("text") : i < j

----------------------------------------------------------------------------
(* Properties of the severity lookup *)

\* the string spells the key, each letter in either case
Spells(chars, key) ==
    /\ Len(chars) = Len(key)
    /\ \A i \in 1..Len(key) : chars[i] = key[i] \/ chars[i] = upper_char(key[i])

\* C24: from_string returns for every string: the level of the name the
\* string spells in whatever letter case, INFO for a string that spells no
\* level name; and the levels are ordered
\* DEBUG < INFO < SUCCESS < WARNING < ERROR < CRITICAL.
C24_CaseInsensitiveTotal ==
    /\ DEBUG < INFO /\ INFO < SUCCESS /\ SUCCESS < WARNING
    /\ WARNING < ERROR /\ ERROR < CRITICAL
    /\ from_string_ret # <<>> =>
          from_string_ret[1] =
              IF Spells(from_string_arg, KEY_DEBUG) THEN DEBUG
              ELSE IF Spells(from_string_arg, KEY_SUCCESS) THEN SUCCESS
              ELSE IF Spells(from_string_arg, KEY_WARNING) THEN WARNING
              ELSE IF Spells(from_string_arg, KEY_ERROR) THEN ERROR
              ELSE IF Spells(from_string_arg, KEY_CRITICAL) THEN CRITICAL
              ELSE INFO

\* "Warning", written with a capital, has been looked up
C24_Witness ==
    /\ from_string_arg = <<"W", "a", "r", "n", "i", "n", "g">>
    /\ from_string_ret = <<WARNING>>

----------------------------------------------------------------------------
(* Properties of the balance extraction *)

\* some locator of the page yields a text that holds a number
StrategyYieldsNumber(doc) ==
    \E l \in {"xpath", "label", "parent"} :
        doc[l].kind = "text" /\ \E i \in 1..Len(doc[l].text) : IsDigit(doc[l].text[i])

\* get_balance and extract_balance_number have returned in attempt a, the
\* page still open
Extracted(a) ==
    /\ hist[a].extract # "none"
    /\ pc[a] \in {"persist", "finish"}
    /\ page[Service(a)] = "open"

\* the first number of the text, digit by digit, is zero
FirstNumberIsZero(text) ==
    LET m == FirstNumber(text)
    IN  /\ m.found
        /\ \A i \in 1..Len(m.int) : m.int[i] = "0"
        /\ \A i \in 1..Len(m.frac) : m.frac[i] = "0"

\* C25: the balance extraction returns whatever the locators do (raise,
\* nothing, a text without digits, a text with digits), and the number it
\* returns is 0.0 exactly when no locator strategy yields a parsable number.
C25_ZeroIffNoNumber ==
    \A a \in Attempts :
        Extracted(a) =>
            /\ {"balance_text", "balance_number"} \subseteq result[a].keys
            /\ result[a].balance_number = 0 <=> ~StrategyYieldsNumber(site)

\* C25 as the code has it: the extraction returns whatever the locators do;
\* the number is 0.0 exactly when the chosen text (that of the first strategy
\* with a non-empty text) holds no number or a number equal to zero, and a
\* number other than 0.0 comes from a strategy that yields a number.
C25_ZeroIffChosenTextZero ==
    \A a \in Attempts :
        Extracted(a) =>
            /\ {"balance_text", "balance_number"} \subseteq result[a].keys
            /\ result[a].balance_number = 0 <=>
                  \/ \A i \in 1..Len(result[a].balance_text) :
                        ~IsDigit(result[a].balance_text[i])
                  \/ FirstNumberIsZero(result[a].balance_text)
            /\ result[a].balance_number # 0 => StrategyYieldsNumber(site)

\* a page whose first strategy shows a zero balance has been read as 0.0
C25_Witness ==
    \E a \in Attempts :
        /\ Extracted(a)
        /\ site.xpath = Text(<<"0", ".", "0">>)
        /\ result[a].balance_number = 0

----------------------------------------------------------------------------
(* Properties of the process *)

\* shutdown has been requested and acted on: bot.stop() has stopped the
\* scheduler of a bot that was serving
ShutDown == proc = "exited" \/ (proc = "serving" /\ ~bot_running)

----------------------------------------------------------------------------
(* Properties of the browser resources *)

\* C27: when run_crawl_task returns, on whatever path, every browser
\* resource that was opened for the run (page, browser, driver) has been
\* closed, also when closing one of them fails; a resource whose own close
\* call failed excepted.
C27_AllReleased ==
    crawler_pc = "returned" =>
        \A r \in opened :
            \/ crawler[r] = "closed"
            \/ \A other \in opened \ {r} : crawler[other] = "closed"

----------------------------------------------------------------------------
(* Properties of the scheduler boundary *)

\* the posts an error notification of attempt a makes
ErrorPosts(a) == send_to_all(a, run[a], "error", "error")

C29_DeliveryFrame ==
    [][\A a \in SchedAttempts :
          pc[a] \in {"notify", "errlog", "errnotify"} =>
              /\ { row \in crawler_logs' : row.by = a /\ row.run = run[a] } = LogsOf(a)
              /\ (a = "manual" /\ pc'[a] = "done") => outcome'[a] = result[a]]_vars

----------------------------------------------------------------------------
(* Properties of the start-up *)

\* C30: after any constructions of SchedulerManager and any calls of
\* start(), concurrent ones included, there is one SchedulerManager and at
\* most one TaskScheduler, the underlying scheduler has been started at most
\* once, and at most one startup notification has been sent and one startup
\* crawl created.
C30_OneScheduler ==
    /\ manager_instances <= 1
    /\ schedulers_made <= 1
    /\ aps_starts <= 1
    /\ startup_notes <= 1
    /\ startup_tasks <= 1

\* two callers were past the is_running test at the same time: one started
\* the scheduler and is sending the startup notification, the other was
\* refused by the scheduler that is running
C30_Witness ==
    \E c1, c2 \in Callers :
        /\ caller[c1] = "notify"
        /\ caller[c2] = "raised"
        /\ aps_starts = 1

----------------------------------------------------------------------------
(* Properties of the store and of what reaches it *)

\* C40: a crawl attempt appends at most one row to electricity_records; when
\* run_crawl_task has returned, it has appended exactly one if its status is
\* success and none if its status is partial or error; and every row a crawl
\* has stored has a balance greater than zero.
C40_AtMostOneReading ==
    /\ \A a \in Attempts :
          /\ Cardinality(RecordsOf(a)) <= 1
          /\ Returned(a) =>
                /\ result[a].status = "success" => Cardinality(RecordsOf(a)) = 1
                /\ result[a].status \in {"partial", "error"} => RecordsOf(a) = {}
    /\ \A i \in 1..Len(electricity_records) : electricity_records[i].balance > 0

\* a crawl has returned success with its one row in the table, its balance
\* the one the crawl read
C40_Witness ==
    \E a \in Attempts :
        /\ Returned(a)
        /\ result[a].status = "success"
        /\ \E i \in RecordsOf(a) :
              /\ RecordsOf(a) = {i}
              /\ electricity_records[i].balance = result[a].balance_number
              /\ electricity_records[i].balance > 0

\* the dict holds the balance as get_balance and extract_balance_number gave
\* it: both keys, a text get_balance returns for the page (or for a page
\* object that was closed meanwhile), and the number of that text
ReportsBalance(r) ==
    /\ {"balance_text", "balance_number"} \subseteq r.keys
    /\ r.balance_text \in {get_balance(TRUE, site), get_balance(TRUE, ClosedDoc)}
    /\ r.balance_number = extract_balance_number(r.balance_text)

\* C36: once login has succeeded get_balance returns and its text and number
\* are put in the result whatever follows: the result of a crawl that got
\* past login is success or partial and holds both, and every success or
\* partial dict handed to a caller (a partial after a failed insert included)
\* holds both.
C36_BalanceReported ==
    \A a \in Attempts :
        /\ (Returned(a) /\ hist[a].login = "ok")
           => /\ result[a].status \in {"success", "partial"}
              /\ ReportsBalance(result[a])
        /\ outcome[a].status \in {"success", "partial"}
           => ReportsBalance(outcome[a])

\* the caller of run_manual_crawl has received a partial dict after a failed
\* insert, and the dict holds the balance that was read
C36_Witness ==
    /\ outcome["manual"].status = "partial"
    /\ outcome["manual"].error_message = MSG_INSERT_FAILED
    /\ outcome["manual"].balance_number > 0
    /\ outcome["manual"].balance_text = get_balance(TRUE, site)

----------------------------------------------------------------------------
(* Properties of the balance API *)

\* the keys the response schema of GET /api/v1/balance names
SchemaKeys == {"status", "records_count", "duration_seconds", "records"}

\* the endpoint has answered
Answered == pc["api"] = "done"

\* the status code goes with the status of the body
CodeMatchesStatus ==
    /\ http \in {200, 207, 500}
    /\ http = 200 <=> outcome["api"].status = "success"
    /\ http = 207 <=> outcome["api"].status = "partial"

\* the answer is made of the result run_crawl_task returned: its status,
\* counts, message and duration, and one dict per record
AnswersResult ==
    (pc["api"] = "returned" /\ pc'["api"] = "done")
    => /\ outcome'["api"].status = result["api"].status
       /\ outcome'["api"].records_count = result["api"].records_count
       /\ outcome'["api"].error_message = result["api"].error_message
       /\ outcome'["api"].duration_seconds = result["api"].duration_seconds
       /\ outcome'["api"].keys = result["api"].keys
       /\ Len(outcome'["api"].records) = Len(result["api"].records)
       /\ \A i \in 1..Len(result["api"].records) :
             outcome'["api"].records[i].balance = result["api"].records[i].balance

\* C32 as stated: the endpoint answers with the result of the crawl, 200
\* exactly when its status is success, 207 exactly when it is partial, 500
\* when it is error or when an unexpected fault occurred, and the body of the
\* response has the keys status, records_count, duration_seconds and records.
C32_StatusAndBody ==
    /\ [](Answered => /\ CodeMatchesStatus
                      /\ SchemaKeys \subseteq outcome["api"].keys)
    /\ [][AnswersResult]_vars

\* C32, amended: as above, but the body has the four keys when it is made of
\* a result of run_crawl_task (any of the three statuses); after an
\* unexpected fault the code is 500 and the body holds the key detail alone.
C32_StatusAndResultBody ==
    /\ [](Answered =>
            /\ CodeMatchesStatus
            /\ outcome["api"].status \in {"success", "partial", "error", "fault"}
            /\ outcome["api"].status \in {"success", "partial", "error"}
               => SchemaKeys \subseteq outcome["api"].keys
            /\ outcome["api"].status = "error" => http = 500
            /\ outcome["api"].status = "fault"
               => http = 500 /\ outcome["api"].keys = {"detail"})
    /\ [][AnswersResult]_vars

\* the endpoint has answered 207 with a partial body that has the four keys
C32_Witness ==
    /\ Answered
    /\ http = 207
    /\ outcome["api"].status = "partial"
    /\ SchemaKeys \subseteq outcome["api"].keys

----------------------------------------------------------------------------
(* Properties of the order of the extraction strategies *)

\* what each strategy of get_balance yields on its own, <<>> when it fails
\* (its locator raises, finds no text or, for the label, no separator)
Structural(doc) ==
    IF Truthy(doc.xpath) THEN <<Strip(doc.xpath.text)>> ELSE <<>>

LabelBased(doc) ==
    IF Truthy(doc.label) /\ Contains(doc.label.text, ":")
    THEN <<Strip(AfterFirstColon(doc.label.text))>> ELSE <<>>

ParentContainer(doc) ==
    IF Truthy(doc.parent)
    THEN LET t == Strip(RemoveMarker(doc.parent.text))
         IN  <<IF t # <<>> /\ t[1] = ":" THEN Strip(Tail(t)) ELSE t>>
    ELSE <<>>

\* the strategies applied in order, the first that succeeds taken
FirstSuccess(doc) ==
    IF Structural(doc) # <<>> THEN Structural(doc)[1]
    ELSE IF LabelBased(doc) # <<>> THEN LabelBased(doc)[1]
    ELSE IF ParentContainer(doc) # <<>> THEN ParentContainer(doc)[1]
    ELSE UNREADABLE

\* C34: get_balance returns what the first successful strategy yields, in
\* the order structural locator, label (the text after the first colon),
\* parent container (marker and leading colon removed), and it returns the
\* unreadable sentinel if and only if all three strategies fail.
C34_OrderedFallback ==
    \A a \in Attempts :
        Extracted(a) =>
            /\ result[a].balance_text = FirstSuccess(site)
            /\ result[a].balance_text = UNREADABLE
               <=> /\ Structural(site) = <<>>
                   /\ LabelBased(site) = <<>>
                   /\ ParentContainer(site) = <<>>

----------------------------------------------------------------------------
(* Properties of the two clamps of the daily summary *)

\* the retrieved readings never go up
NeverIncreasing ==
    \A k \in 1..(Len(Retrieved) - 1) :
        Retrieved[k].balance >= Retrieved[k + 1].balance

\* some entry of the hourly series has a positive usage
SomeHourlyUsage ==
    \E k \in 1..Len(daily_summary[1].hourly_usage) :
        daily_summary[1].hourly_usage[k].usage > 0

\* C38: for a day of at least two readings total_usage is at most the sum of
\* the hourly usages, and equal to it when the readings never go up; a day
\* whose total_usage is 0 is handled by the summary task as a day without
\* usage (the branch of scheduler.py 181-187: no chart is made), also when
\* some hourly usage is positive.
C38_TotalAtMostSum ==
    /\ (daily_summary # <<>> /\ Len(Retrieved) >= 2) =>
          /\ daily_summary[1].total_usage <= SumUsage(daily_summary[1].hourly_usage)
          /\ NeverIncreasing =>
                daily_summary[1].total_usage = SumUsage(daily_summary[1].hourly_usage)
    /\ (daily_pc \in {"charted", "done"} /\ daily_summary[1].total_usage <= 0)
          => daily_pc = "done" /\ chart_path = <<>>

\* the task has handled as a day without usage a day whose readings went
\* down by 20 and then up by 40: total_usage 0, one hourly usage of 20
C38_Witness ==
    /\ daily_pc = "done"
    /\ daily_kind = "scheduled"
    /\ Len(Retrieved) >= 2
    /\ daily_summary[1].total_usage = 0
    /\ SomeHourlyUsage
    /\ SumUsage(daily_summary[1].hourly_usage) = 20 * Scale
    /\ chart_path = <<>>

----------------------------------------------------------------------------
(* Properties of crawls that overlap on one TaskScheduler *)

\* the attempt is inside `async with self.crawler`: its start() has returned
\* and its __aexit__ has not run
InsideSession(a) ==
    hist[a].start = "ok" /\ pc[a] \in {"login", "extract", "persist", "finish"}

\* C39: a crawl attempt of the scheduler that is inside its browser session
\* has its page open, whatever the other attempts do: no other attempt
\* closes it.
C39_OwnSession ==
    \A a \in SchedAttempts : InsideSession(a) => page[Service(a)] = "open"

----------------------------------------------------------------------------
(* Properties of the notification a processed outcome gets *)

\* the kind of notification that goes with a status
KindOf(status) ==
    IF status = "success" THEN "balance"
    ELSE IF status = "partial" THEN "partial"
    ELSE "error"

\* the posts made in this step
NewPosts == deliveries' \ deliveries

\* C35: processing the outcome of a crawl calls one notification of the
\* manager, the one that goes with the status of the outcome: every post
\* made while the outcome is processed is of that kind (balance for success,
\* the warning for partial, the error for error), an error outcome has its
\* error notification posted to every channel that can post, and the error
\* notification is called for no outcome whose status is not error.
C35_OneKindPerStatus ==
    [][\A a \in SchedAttempts :
          /\ (pc[a] = "notify" /\ pc'[a] # "notify") =>
                /\ \A d \in NewPosts :
                      d.by = a /\ d.kind = KindOf(result[a].status)
                /\ result[a].status = "error" =>
                      \A c \in Notifiers :
                          Posts(c) => \E d \in deliveries' :
                                         /\ d.by = a /\ d.run = run[a]
                                         /\ d.kind = "error" /\ d.channel = c
          /\ (pc[a] = "errnotify" /\ pc'[a] # "errnotify")
                => result[a].status = "error"]_vars

----------------------------------------------------------------------------
(* Properties of the balance notification of manager.py *)

\* send_balance_notification has returned or raised
BalanceSettled == event.kind = "balance" /\ mpc \in {"done", "raised"}

\* the comparison of the local time with the window, both ends included
InsideWindow ==
    LET s == cfg.notification_start_time
        e == cfg.notification_end_time
        n == event.clock
    IN  \/ s <= e /\ s <= n /\ n <= e
        \/ s > e /\ (n >= s \/ n <= e)

\* there is a notification window and a local time, and the time is inside
WithinConfiguredWindow ==
    cfg.start_time_valid /\ cfg.end_time_valid /\ cfg.tz_valid /\ InsideWindow

\* the time gate lets the notification through: the time is inside the
\* window, or the start or the end of the window does not parse
TimeGateOpen ==
    \/ ~cfg.start_time_valid
    \/ ~cfg.end_time_valid
    \/ cfg.tz_valid /\ InsideWindow

BelowThreshold == event.balance < notification_balance_threshold * Scale

\* C37 as stated: a balance notification has the level SUCCESS, and a
\* channel has a delivery attempt for it if and only if the local time is
\* within the notification window, the balance is below the threshold and
\* the channel's floor is at most SUCCESS; the time is looked at before the
\* threshold, and either gate alone holds the notification back from every
\* channel.
C37_ThreeGates ==
    BalanceSettled =>
        /\ event.level = SUCCESS
        /\ \A i \in 1..Len(notifiers) :
              AttemptsTo(i) =
                  IF /\ WithinConfiguredWindow
                     /\ BelowThreshold
                     /\ notifiers[i].min_level <= SUCCESS
                  THEN 1 ELSE 0
        /\ (cfg.start_time_valid /\ cfg.end_time_valid /\ cfg.tz_valid
               /\ ~InsideWindow) => event.gate = "quiet"

\* C37, amended: as above with the time gate as the code has it: it lets the
\* notification through when the time is inside the window and also when the
\* start or the end of the window does not parse; when it holds the
\* notification back (or raises, the time zone not being found) the
\* threshold is not looked at.
C37_GateThenThreshold ==
    BalanceSettled =>
        /\ event.level = SUCCESS
        /\ \A i \in 1..Len(notifiers) :
              AttemptsTo(i) =
                  IF /\ TimeGateOpen
                     /\ BelowThreshold
                     /\ notifiers[i].min_level <= SUCCESS
                  THEN 1 ELSE 0
        /\ ~TimeGateOpen => /\ event.gate \in {"quiet", "raise"}
                            /\ ~event.routed /\ sends = <<>>
        /\ (TimeGateOpen /\ ~BelowThreshold) => /\ event.gate = "threshold"
                                                /\ ~event.routed /\ sends = <<>>

\* a balance below the threshold was sent inside the window to a manager of
\* three channels: the two whose floor is at most SUCCESS had their attempt,
\* the one with floor ERROR had none
C37_Witness ==
    /\ BalanceSettled
    /\ WithinConfiguredWindow /\ BelowThreshold
    /\ Len(notifiers) = 3
    /\ \E i, k \in 1..Len(notifiers) :
          /\ notifiers[i].min_level = SUCCESS /\ AttemptsTo(i) = 1
          /\ notifiers[k].min_level = ERROR /\ AttemptsTo(k) = 0


----------------------------------------------------------------------------
(* The cron job electricity_crawl_task and its limit of one instance.      *)

\* scheduled crawls started so far
ScheduledCrawlsStarted == run["cron"]

\* a step in which a run of the cron job starts
CronCrawlStarts == run'["cron"] > run["cron"]

\* C33: a cron trigger that fires while an instance of the crawl job is
\* running is skipped and not queued: the step of such a trigger changes the
\* position and the number of runs of no caller, a scheduled crawl starts
\* only in the step of a trigger that found no instance running, and so the
\* scheduled crawls started never exceed the triggers that fired while no
\* scheduled crawl was running
C33_SkippedNotQueued ==
    /\ [](ScheduledCrawlsStarted <= fired.idle)
    /\ [][ /\ fired'.busy > fired.busy => UNCHANGED <<pc, run>>
           /\ CronCrawlStarts =>
                 /\ ~CronInstanceRunning
                 /\ fired'.idle = fired.idle + 1
                 /\ run'["cron"] = run["cron"] + 1 ]_vars

\* a trigger fired while the scheduled crawl was running, that crawl has
\* ended since, and no second crawl was started for the skipped trigger
C33_Witness ==
    /\ fired.busy >= 1
    /\ fired.idle = 1
    /\ pc["cron"] = "done"
    /\ run["cron"] = 1


----------------------------------------------------------------------------
(* The store only grows.                                                    *)

\* s is the beginning of t
IsPrefixOf(s, t) == Len(s) <= Len(t) /\ SubSeq(t, 1, Len(s)) = s

\* the read operations of Database
ReadOps ==
    {"get_latest_records", "get_records_by_date_range", "get_latest_balance",
     "get_daily_usage_summary"}

\* rows in the two tables
StoredRows == Len(electricity_records) + Cardinality(crawler_logs)

\* C31: the store is append-only: in every step the rows already in
\* electricity_records and in crawler_logs stay as they are and in their
\* place, a step adds at most one row in all, and the step of a read
\* operation (latest records, date range, latest balance, daily summary)
\* leaves both tables unchanged
C31_AppendOnly ==
    [][ /\ IsPrefixOf(electricity_records, electricity_records')
        /\ crawler_logs \subseteq crawler_logs'
        /\ StoredRows' <= StoredRows + 1
        /\ fetched'.op \in ReadOps =>
              UNCHANGED <<electricity_records, crawler_logs>> ]_vars

\* with three readings and a log row stored, the daily summary has been
\* computed from the readings and reports usage
C31_Witness ==
    /\ Len(electricity_records) >= 3
    /\ crawler_logs # {}
    /\ fetched.op = "get_daily_usage_summary"
    /\ fetched.value.total_usage > 0

====
